---- MODULE Spec2Model ----
(***************************************************************************)
(* Postboi publish core: ShareManager (concurrent fan-out / fan-in),       *)
(* unified_post_workflow (bounded retry) and Scheduler (persisted          *)
(* scheduled posts fired by APScheduler date jobs).                        *)
(***************************************************************************)
EXTENDS Integers, Sequences, FiniteSets, TLC

(***************************************************************************)
(* Platform names and adapters                                             *)
(***************************************************************************)

\* The three platforms ShareManager has an adapter slot for.
KnownPlatforms == {"wordpress", "facebook", "instagram"}

\* Names a caller may pass: the known ones and one that has no adapter slot.
PlatformNames == KnownPlatforms \cup {"tiktok"}

\* str.capitalize() on the platform names.
Capitalize(platform) ==
    CASE platform = "wordpress" -> "Wordpress"
      [] platform = "facebook"  -> "Facebook"
      [] platform = "instagram" -> "Instagram"
      [] platform = "tiktok"    -> "Tiktok"

\* The display name returned by the branch that calls the adapter.
DisplayName(platform) ==
    CASE platform = "wordpress" -> "WordPress"
      [] platform = "facebook"  -> "Facebook"
      [] platform = "instagram" -> "Instagram"

\* What one call of an adapter's share(image_path, caption) can do: return a
\* (success, message) pair or raise.
AdapterOutcomes ==
    { [kind |-> "return", success |-> TRUE,  message |-> "post_url"],
      [kind |-> "return", success |-> FALSE, message |-> "upload failed"],
      [kind |-> "raise",  success |-> FALSE, message |-> "timeout"] }

\* Mutant of ShareToPlatform: the except clause is missing, so an adapter
\* exception leaves share_to_platform.
ShareToPlatformNoCatch(services, platform, outcome) ==
    IF platform \in KnownPlatforms /\ platform \in services
    THEN IF outcome.kind = "raise"
         THEN [kind |-> "raise", name |-> Capitalize(platform),
               success |-> FALSE, message |-> outcome.message]
         ELSE [kind |-> "return", name |-> DisplayName(platform),
               success |-> outcome.success, message |-> outcome.message]
    ELSE [kind |-> "return", name |-> Capitalize(platform),
          success |-> FALSE, message |-> "Service not configured"]

\* Mutant of ShareToPlatform: an unconfigured platform is reported as a
\* success.
ShareToPlatformUnconfiguredOk(services, platform, outcome) ==
    IF platform \in KnownPlatforms /\ platform \in services
    THEN IF outcome.kind = "raise"
         THEN [kind |-> "return", name |-> Capitalize(platform),
               success |-> FALSE, message |-> "Error: " \o outcome.message]
         ELSE [kind |-> "return", name |-> DisplayName(platform),
               success |-> outcome.success, message |-> outcome.message]
    ELSE [kind |-> "return", name |-> Capitalize(platform),
          success |-> TRUE, message |-> "Service not configured"]

\* ShareManager.share_to_platform: (platform_name, success, message), given
\* the set of platforms whose service is set and what the adapter call does.
ShareToPlatform(services, platform, outcome) ==
    IF platform \in KnownPlatforms /\ platform \in services
    THEN IF outcome.kind = "raise"
         THEN [kind |-> "return", name |-> Capitalize(platform),
               success |-> FALSE, message |-> "Error: " \o outcome.message]
         ELSE [kind |-> "return", name |-> DisplayName(platform),
               success |-> outcome.success, message |-> outcome.message]
    ELSE [kind |-> "return", name |-> Capitalize(platform),
          success |-> FALSE, message |-> "Service not configured"]

\* The arguments of a schedule_post call or of an accepted update_post call:
\* "" is no caption, {} no platforms, -1 no time.
Args(caption, platforms, scheduled_time) ==
    [caption |-> caption, platforms |-> platforms,
     scheduled_time |-> scheduled_time]

NoArgs == Args("", {}, -1)

\* No schedule/cancel/update call has returned yet.
NoReturn == [op |-> "none", post_id |-> 0, ok |-> FALSE, message |-> "",
             args |-> NoArgs]

\* The empty dict.
EmptyDict == [k \in {} |-> <<>>]

\* The retry loop's variables before the first attempt.
RetryStart == [success |-> FALSE, message |-> "", error_log |-> <<>>, done |-> FALSE]

\* No share_callback call has just returned.
NoResults == [post_id |-> 0, called |-> FALSE, raised |-> FALSE,
              results |-> EmptyDict]

\* d[k] = v on a dict.
DictSet(d, k, v) == (k :> v) @@ d

(***************************************************************************)
(* Bounds                                                                  *)
(***************************************************************************)

\* Largest max_workers a ShareManager is constructed with.
MaxWorkers == 2

\* Largest number of platforms in one unified_post_workflow call.
MaxRequest == 2

\* Number of post ids uuid4 issues in a run.
MaxPosts == 2

\* The clock runs from 0 to MaxTime.
MaxTime == 2

\* Number of schedule_post, cancel_post and update_post calls in a run.
MaxCalls == 3

\* Number of times the process stops and is started again in a run.
MaxCrashes == 1

\* Number of times writing the schedule file starts to fail in a run.
MaxDiskFailures == 1

(***************************************************************************)
(* Program constants                                                       *)
(***************************************************************************)

\* UNIFIED_WORKFLOW_CONFIG['max_retry_attempts']
max_attempts == 3

(***************************************************************************)
(* State                                                                   *)
(***************************************************************************)

VARIABLES
    \* ShareManager
    services,       \* platforms whose *_service field is set
    max_workers,    \* ShareManager.max_workers
    sm_pc,          \* position of the share_to_multiple caller
    sm_platforms,   \* the platforms argument of the call in progress
    futures,        \* future_to_platform: platform -> state of its future
    sm_results,     \* the results dict of the call in progress
    \* Scheduler
    up,              \* the process is running and Scheduler.__init__ is done
    now,             \* datetime.now()
    share_callback,  \* which function Scheduler.share_callback is
    scheduled_posts, \* Scheduler.scheduled_posts: post_id -> ScheduledPost
    schedule_file,   \* content of the JSON file: post_id -> dict
    jobs,            \* APScheduler's job store: job id -> run_date
    running,         \* job id -> the _execute_scheduled_post call in progress
    invoked,         \* post_id -> number of share_callback calls made for it
    next_id,         \* the next id uuid4 returns
    ret,             \* what the schedule/cancel/update call that has just
                     \* returned gave its caller (NoReturn otherwise)
    returned,        \* what share_callback has just returned to
                     \* _execute_scheduled_post (NoResults otherwise)
    missed,          \* history: post_id -> invoked[post_id] at the startup
                     \* that found the post pending and due in the file
    seen,            \* history: post_id -> how the last startup found the
                     \* post in the file ("missed", "future", "terminal")
    calls_made,      \* number of schedule/cancel/update calls made
    crashes,         \* number of times the Scheduler has been constructed again
    disk,            \* "ok" when writing the schedule file succeeds,
                     \* "failing" when open/json.dump raise
    disk_failures,   \* number of times the disk has started failing
    old_jobs,        \* job store of the Scheduler object that was replaced
                     \* by _init_services and never shut down
    old_posts,       \* scheduled_posts of that Scheduler object
    old_invoked,     \* post_id -> number of share_callback calls made for
                     \* it by the timers of replaced Scheduler objects
    \* unified_post_workflow
    wf_pc,           \* position in unified_post_workflow
    wf_todo,         \* platforms of the "for platform in platforms" loop
                     \* that are still to come
    wf_platform,     \* the loop's current platform
    wf_attempt,      \* the retry loop's attempt
    wf_st,           \* success, message and error_log of the current platform
    wf_results,      \* the results dict
    wf_calls,        \* history: platform -> what each share_to_platform call
                     \* made for it found the adapter doing
    wf_image,        \* adjusted_image of the current platform
    wf_env,          \* what the image collaborator did when the current
                     \* platform's image was adapted
    wf_adapts,       \* history: platform -> number of times its caption and
                     \* image were adapted
    wf_sent,         \* history: platform -> the image passed to each
                     \* share_to_platform call made for it
    \* the adaptation and serialisation functions, called on their own
    fn_pc,           \* "call" before the call, then the function that returned
    fn_in,           \* the function called and its arguments
    fn_out           \* what it returned

shareVars == <<services, max_workers, sm_pc, sm_platforms, futures, sm_results>>

schedVars == <<up, now, share_callback, scheduled_posts, schedule_file, jobs,
               running, invoked, next_id, ret, returned, missed, seen,
               calls_made, crashes, disk, disk_failures,
               old_jobs, old_posts, old_invoked>>

diskVars == <<disk, disk_failures>>

oldVars == <<old_jobs, old_posts, old_invoked>>

wfVars == <<wf_pc, wf_todo, wf_platform, wf_attempt, wf_st, wf_results, wf_calls,
           wf_image, wf_env, wf_adapts, wf_sent>>

fnVars == <<fn_pc, fn_in, fn_out>>

vars == <<shareVars, schedVars, wfVars, fnVars>>

(***************************************************************************)
(* ShareManager.share_to_multiple                                          *)
(***************************************************************************)

Queued  == [state |-> "queued"]
Running == [state |-> "running"]

\* Number of worker threads of the pool that are running a task.
BusyWorkers == Cardinality({p \in DOMAIN futures : futures[p].state = "running"})

\* The platform's adapter is set, so share_to_platform calls it.
Configured(p) == p \in KnownPlatforms /\ p \in services

\* No adapter call was made.
NoCall == [kind |-> "none", success |-> FALSE, message |-> ""]

\* What the adapter call made for platform p can do (no call when the
\* platform has no adapter).
AdapterCalls(p) == IF Configured(p) THEN AdapterOutcomes ELSE {NoCall}

\* ShareManager.__init__: the state of a constructed ShareManager.
ShareInit ==
    /\ services \in SUBSET KnownPlatforms
    /\ max_workers \in 1..MaxWorkers
    /\ sm_pc = "idle"
    /\ sm_platforms = {}
    /\ futures = EmptyDict
    /\ sm_results = EmptyDict

\* share_to_multiple is entered: results = {}, the pool is created and one
\* task per requested platform is submitted.
ShareCall ==
    /\ sm_pc = "idle"
    /\ \E P \in SUBSET PlatformNames :
         /\ sm_platforms' = P
         /\ futures' = [p \in P |-> Queued]
    /\ sm_results' = EmptyDict
    /\ sm_pc' = "collecting"
    /\ UNCHANGED <<services, max_workers>>
    /\ UNCHANGED schedVars
    /\ UNCHANGED wfVars
    /\ UNCHANGED fnVars

\* Mutant of WorkerFree: a thread is started for every task.
WorkerFreeAlways(busy, limit) == TRUE

\* ThreadPoolExecutor(max_workers=self.max_workers): the pool has a thread
\* for one more task while fewer than max_workers are running one.
WorkerFree(busy, limit) == busy < limit

\* A free worker thread of the pool takes a queued task.
WorkerStart ==
    /\ sm_pc \in {"collecting", "raising"}
    /\ WorkerFree(BusyWorkers, max_workers)
    /\ \E p \in DOMAIN futures :
         /\ futures[p].state = "queued"
         /\ futures' = [futures EXCEPT ![p] = Running]
    /\ UNCHANGED <<services, max_workers, sm_pc, sm_platforms, sm_results>>
    /\ UNCHANGED schedVars
    /\ UNCHANGED wfVars
    /\ UNCHANGED fnVars

\* The task share_to_platform(platform, ...) finishes on its worker; the
\* future holds what it returned or raised.
WorkerFinish ==
    /\ \E p \in DOMAIN futures :
         /\ futures[p].state = "running"
         /\ \E o \in AdapterCalls(p) :
              futures' = [futures EXCEPT ![p] =
                            [state |-> "done", adapter |-> o,
                             result |-> ShareToPlatform(services, p, o)]]
    /\ UNCHANGED <<services, max_workers, sm_pc, sm_platforms, sm_results>>
    /\ UNCHANGED schedVars
    /\ UNCHANGED wfVars
    /\ UNCHANGED fnVars

\* One iteration of "for future in as_completed(...)": future.result() is
\* unpacked into results, or re-raises what the task raised.
Collect ==
    /\ sm_pc = "collecting"
    /\ \E p \in DOMAIN futures :
         /\ futures[p].state = "done"
         /\ futures' = [futures EXCEPT ![p].state = "collected"]
         /\ IF futures[p].result.kind = "raise"
            THEN /\ sm_pc' = "raising"
                 /\ UNCHANGED sm_results
            ELSE /\ sm_results' = DictSet(sm_results, futures[p].result.name,
                                          <<futures[p].result.success,
                                            futures[p].result.message>>)
                 /\ UNCHANGED sm_pc
    /\ UNCHANGED <<services, max_workers, sm_platforms>>
    /\ UNCHANGED schedVars
    /\ UNCHANGED wfVars
    /\ UNCHANGED fnVars

\* ThreadPoolExecutor.__exit__, which is shutdown(wait=True), can return:
\* every submitted task has finished.
PoolShutDown(fs) == \A p \in DOMAIN fs : fs[p].state \in {"done", "collected"}

\* Mutant of ReturnReady: the pool is not used as a context manager and
\* "return results" is inside the for loop, so the first collected result
\* is returned.
ReturnReadyFirstResult(fs) ==
    DOMAIN fs = {} \/ \E p \in DOMAIN fs : fs[p].state = "collected"

\* "return results" can be reached: as_completed has yielded every future
\* and the with block can be left.
ReturnReady(fs) ==
    /\ \A p \in DOMAIN fs : fs[p].state = "collected"
    /\ PoolShutDown(fs)

\* The with block is left (the pool's shutdown waits for every task) and
\* share_to_multiple returns results, or the pending exception propagates.
ShareExit ==
    /\ \/ /\ sm_pc = "collecting"
          /\ ReturnReady(futures)
          /\ sm_pc' = "returned"
       \/ /\ sm_pc = "raising"
          /\ PoolShutDown(futures)
          /\ sm_pc' = "raised"
    /\ UNCHANGED <<services, max_workers, sm_platforms, futures, sm_results>>
    /\ UNCHANGED schedVars
    /\ UNCHANGED wfVars
    /\ UNCHANGED fnVars

\* The caller has taken the returned dict; the manager is called again.
ShareAgain ==
    /\ sm_pc = "returned"
    /\ sm_pc' = "idle"
    /\ sm_platforms' = {}
    /\ futures' = EmptyDict
    /\ sm_results' = EmptyDict
    /\ UNCHANGED <<services, max_workers>>
    /\ UNCHANGED schedVars
    /\ UNCHANGED wfVars
    /\ UNCHANGED fnVars

ShareNext ==
    \/ ShareCall
    \/ WorkerStart
    \/ WorkerFinish
    \/ Collect
    \/ ShareExit
    \/ ShareAgain

\* No unified_post_workflow call is in progress.
WorkflowOff ==
    /\ wf_pc = "idle"
    /\ wf_todo = {}
    /\ wf_platform = ""
    /\ wf_attempt = 0
    /\ wf_st = RetryStart
    /\ wf_results = EmptyDict
    /\ wf_calls = EmptyDict
    /\ wf_image = ""
    /\ wf_env = EmptyDict
    /\ wf_adapts = EmptyDict
    /\ wf_sent = EmptyDict

\* None of the functions is being called on its own.
FnOff ==
    /\ fn_pc = "off"
    /\ fn_in = EmptyDict
    /\ fn_out = EmptyDict

\* No Scheduler has been constructed.
SchedulerOff ==
    /\ up = FALSE
    /\ now = 0
    /\ share_callback = "none"
    /\ scheduled_posts = EmptyDict
    /\ schedule_file = EmptyDict
    /\ jobs = EmptyDict
    /\ running = EmptyDict
    /\ invoked = [i \in 1..MaxPosts |-> 0]
    /\ next_id = 1
    /\ ret = NoReturn
    /\ returned = NoResults
    /\ missed = EmptyDict
    /\ seen = EmptyDict
    /\ calls_made = 0
    /\ crashes = 0
    /\ disk = "ok"
    /\ disk_failures = 0
    /\ old_jobs = EmptyDict
    /\ old_posts = EmptyDict
    /\ old_invoked = [i \in 1..MaxPosts |-> 0]

SpecShareInit == ShareInit /\ SchedulerOff /\ WorkflowOff /\ FnOff

SpecShare == SpecShareInit /\ [][ShareNext]_vars

(***************************************************************************)
(* Claims about ShareManager                                               *)
(***************************************************************************)

\* The keys under which a platform's outcome can be stored.
KeysOf(p) == {Capitalize(p)} \cup (IF p \in KnownPlatforms THEN {DisplayName(p)} ELSE {})

\* The entries of the returned dict that belong to platform p.
EntriesOf(p) == {k \in DOMAIN sm_results : k \in KeysOf(p)}

NotConfiguredOutcome == <<FALSE, "Service not configured">>

\* C1: when share_to_multiple has returned for a set P of requested
\* platforms of which K have an adapter, the dict has exactly |P| entries,
\* one per requested platform; exactly |P|-K of them are
\* (False, "Service not configured"), and the entry of every platform whose
\* adapter call returned is the (success, message) pair it returned.
C1_OneOutcomePerPlatform ==
    sm_pc = "returned" =>
        LET P == sm_platforms
            K == Cardinality({p \in P : Configured(p)})
        IN /\ Cardinality(DOMAIN sm_results) = Cardinality(P)
           /\ \A p \in P : Cardinality(EntriesOf(p)) = 1
           /\ Cardinality({k \in DOMAIN sm_results :
                             sm_results[k] = NotConfiguredOutcome})
                = Cardinality(P) - K
           /\ \A p \in P :
                 /\ ~Configured(p) =>
                      \A k \in EntriesOf(p) : sm_results[k] = NotConfiguredOutcome
                 /\ (Configured(p) /\ futures[p].adapter.kind = "return") =>
                      \A k \in EntriesOf(p) :
                          sm_results[k] = <<futures[p].adapter.success,
                                            futures[p].adapter.message>>

\* C1 witness: a returned call over three or more platforms, some without an
\* adapter, one whose adapter returned success and one whose adapter returned
\* failure.
C1_Witness ==
    /\ sm_pc = "returned"
    /\ Cardinality(sm_platforms) >= 3
    /\ \E p \in sm_platforms : ~Configured(p)
    /\ \E p, q \in sm_platforms :
         /\ Configured(p) /\ futures[p].adapter.kind = "return"
         /\ futures[p].adapter.success
         /\ Configured(q) /\ futures[q].adapter.kind = "return"
         /\ ~futures[q].adapter.success

\* C2: an exception raised by an adapter's share call never leaves
\* share_to_multiple; the platform's entry is (False, "Error: <text>") and
\* every other requested platform has its own outcome.
C2_AdapterExceptionContained ==
    /\ sm_pc \notin {"raising", "raised"}
    /\ \A p \in DOMAIN futures :
         futures[p].state \in {"done", "collected"} =>
             futures[p].result.kind = "return"
    /\ sm_pc = "returned" =>
         \A p \in sm_platforms :
            futures[p].adapter.kind = "raise" =>
              /\ \A k \in EntriesOf(p) :
                    sm_results[k] = <<FALSE, "Error: " \o futures[p].adapter.message>>
              /\ Cardinality(EntriesOf(p)) = 1
              /\ \A q \in sm_platforms \ {p} :
                    /\ Cardinality(EntriesOf(q)) = 1
                    /\ futures[q].adapter.kind = "return" =>
                         \A k \in EntriesOf(q) :
                             sm_results[k] = <<futures[q].adapter.success,
                                               futures[q].adapter.message>>
                    /\ futures[q].adapter.kind = "none" =>
                         \A k \in EntriesOf(q) :
                             sm_results[k] = NotConfiguredOutcome

\* C2 witness: a returned call in which one adapter raised, another returned
\* success and a third platform has no adapter.
C2_Witness ==
    /\ sm_pc = "returned"
    /\ \E p, q, r \in sm_platforms :
         /\ futures[p].adapter.kind = "raise"
         /\ futures[q].adapter.kind = "return" /\ futures[q].adapter.success
         /\ futures[r].adapter.kind = "none"

(***************************************************************************)
(* Content adaptation: adjust_image_for_platform                           *)
(***************************************************************************)

\* Python's None.
None == "None"

\* str.lower() on the platform names.
Lower(platform) ==
    CASE platform = "Instagram" -> "instagram"
      [] platform = "Facebook"  -> "facebook"
      [] platform = "WordPress" -> "wordpress"
      [] OTHER -> platform

\* dict.get(key, default)
Get(d, key, default) == IF key \in DOMAIN d THEN d[key] ELSE default

\* PLATFORM_REQUIREMENTS. A number n is written <<n>>, so that it can be
\* told from None; aspect_ratio is read by no code and left out.
PLATFORM_REQUIREMENTS ==
    [instagram |-> [max_caption_length |-> <<2200>>, max_hashtags |-> <<30>>,
                    max_image_size |-> <<1080, 1080>>],
     facebook  |-> [max_caption_length |-> <<63206>>,
                    max_image_size |-> <<2048, 2048>>],
     wordpress |-> [max_caption_length |-> None,
                    max_image_size |-> <<1920, 1920>>]]

\* PLATFORM_REQUIREMENTS.get(platform, {}).get('max_image_size'): None for
\* a platform that is not in the table.
MaxImageSize(platform) ==
    Get(Get(PLATFORM_REQUIREMENTS, platform, EmptyDict), "max_image_size", None)

\* The image the scheduler's and the workflow's callers pass.
ImagePath == "image.jpg"

\* The image paths adjust_image_for_platform is called with.
ImagePaths == {"image.jpg", "photo.png", "scan.v2.jpg"}

\* image_path.replace('.', '_resized.'): the output path of resize_image.
ResizedPath(image_path) ==
    CASE image_path = "image.jpg"   -> "image_resized.jpg"
      [] image_path = "photo.png"   -> "photo_resized.png"
      [] image_path = "scan.v2.jpg" -> "scan_resized.v2_resized.jpg"

\* What the image collaborator does in one call of adjust_image_for_platform:
\* whether "from utils.image_utils import ImageUtils" succeeds, and whether
\* ImageUtils.resize_image returns the output path, returns None or raises.
ResizeEnvs ==
    [import_ok : BOOLEAN, resize : {"path", "none", "raise"}]

\* Mutant of AdjustImageForPlatform: what resize_image returned is passed
\* on as it is.
AdjustImageNoFallback(image_path, platform, env) ==
    IF ~env.import_ok THEN image_path
    ELSE IF MaxImageSize(Lower(platform)) = None THEN image_path
    ELSE IF env.resize = "raise" THEN image_path
    ELSE IF env.resize = "none" THEN None
    ELSE ResizedPath(image_path)

\* adjust_image_for_platform
AdjustImageForPlatform(image_path, platform, env) ==
    IF ~env.import_ok THEN image_path
    ELSE IF MaxImageSize(Lower(platform)) = None THEN image_path
    ELSE IF env.resize = "raise" THEN image_path
    ELSE LET adjusted_path == IF env.resize = "none" THEN None
                              ELSE ResizedPath(image_path)
         IN IF adjusted_path # None THEN adjusted_path ELSE image_path

(***************************************************************************)
(* Content adaptation: adjust_caption_for_platform                         *)
(***************************************************************************)

\* Length of the captions adjust_caption_for_platform is called with.
MaxCaption == 7

\* The limits of the small table: captions of MaxCaption characters reach
\* them, as captions of thousands of characters reach 2200 and 30.
CaptionLimit == 4
HashtagCap == 1

\* PLATFORM_REQUIREMENTS with small limits.
SmallRequirements ==
    [instagram |-> [max_caption_length |-> <<CaptionLimit>>,
                    max_hashtags |-> <<HashtagCap>>,
                    max_image_size |-> <<1080, 1080>>],
     facebook  |-> [max_caption_length |-> <<CaptionLimit + 2>>,
                    max_image_size |-> <<2048, 2048>>],
     wordpress |-> [max_caption_length |-> None,
                    max_image_size |-> <<1920, 1920>>]]

\* The tables adjust_caption_for_platform is run with.
RequirementTables == {PLATFORM_REQUIREMENTS, SmallRequirements}

\* A caption is a sequence of characters: hash signs, letters and blanks.
Chars == {"#", "a", " "}
Captions == UNION {[1..n -> Chars] : n \in 0..MaxCaption}

\* The platform names adjust_caption_for_platform is called with.
CaptionPlatforms == {"instagram", "Instagram", "facebook", "wordpress", "tiktok"}

\* str.split(): the maximal runs of non-blank characters, left to right.
RECURSIVE SplitScan(_, _, _)
SplitScan(text, word, words) ==
    IF text = <<>>
    THEN IF word = <<>> THEN words ELSE Append(words, word)
    ELSE IF Head(text) = " "
         THEN SplitScan(Tail(text), <<>>,
                        IF word = <<>> THEN words ELSE Append(words, word))
         ELSE SplitScan(Tail(text), Append(word, Head(text)), words)

Split(text) == SplitScan(text, <<>>, <<>>)

\* ' '.join(parts)
RECURSIVE Join(_)
Join(parts) ==
    IF parts = <<>> THEN <<>>
    ELSE IF Len(parts) = 1 THEN parts[1]
    ELSE parts[1] \o <<" ">> \o Join(Tail(parts))

\* word.startswith('#')
StartsWithHash(word) == Len(word) > 0 /\ word[1] = "#"

\* [word for word in caption.split() if word.startswith('#')]
Hashtags(caption) == SelectSeq(Split(caption), StartsWithHash)

\* Mutant of FilterParts: hashtag_count is never incremented.
RECURSIVE FilterPartsUncounted(_, _, _)
FilterPartsUncounted(caption_parts, hashtag_count, max_hashtags) ==
    IF caption_parts = <<>> THEN <<>>
    ELSE LET part == Head(caption_parts)
         IN IF StartsWithHash(part)
            THEN IF hashtag_count < max_hashtags
                 THEN <<part>> \o FilterPartsUncounted(Tail(caption_parts),
                                                      hashtag_count, max_hashtags)
                 ELSE FilterPartsUncounted(Tail(caption_parts), hashtag_count,
                                           max_hashtags)
            ELSE <<part>> \o FilterPartsUncounted(Tail(caption_parts),
                                                 hashtag_count, max_hashtags)

\* The loop "for part in caption_parts" from the part it is at, with
\* hashtag_count hashtags kept so far: filtered_parts.
RECURSIVE FilterParts(_, _, _)
FilterParts(caption_parts, hashtag_count, max_hashtags) ==
    IF caption_parts = <<>> THEN <<>>
    ELSE LET part == Head(caption_parts)
         IN IF StartsWithHash(part)
            THEN IF hashtag_count < max_hashtags
                 THEN <<part>> \o FilterParts(Tail(caption_parts),
                                             hashtag_count + 1, max_hashtags)
                 ELSE FilterParts(Tail(caption_parts), hashtag_count,
                                  max_hashtags)
            ELSE <<part>> \o FilterParts(Tail(caption_parts), hashtag_count,
                                        max_hashtags)

\* text[:n], also for a negative n.
Slice(text, n) ==
    IF n >= 0
    THEN SubSeq(text, 1, IF n < Len(text) THEN n ELSE Len(text))
    ELSE SubSeq(text, 1, IF Len(text) + n > 0 THEN Len(text) + n ELSE 0)

Ellipsis == <<".", ".", ".">>

\* Mutant of Truncate: the caption is cut to max_length characters before
\* the suffix is added.
TruncateNoRoom(caption, max_length) ==
    IF max_length # None /\ max_length[1] # 0 /\ Len(caption) > max_length[1]
    THEN Slice(caption, max_length[1]) \o Ellipsis
    ELSE caption

\* "if max_length and len(caption) > max_length:
\*      caption = caption[:max_length - 3] + '...'"
Truncate(caption, max_length) ==
    IF max_length # None /\ max_length[1] # 0 /\ Len(caption) > max_length[1]
    THEN Slice(caption, max_length[1] - 3) \o Ellipsis
    ELSE caption

\* adjust_caption_for_platform, reading the table requirement_table.
AdjustCaptionForPlatform(caption, platform, requirement_table) ==
    LET requirements == Get(requirement_table, Lower(platform), EmptyDict)
        max_length == Get(requirements, "max_caption_length", None)
        trimmed ==
            IF Lower(platform) = "instagram"
            THEN LET hashtags == Hashtags(caption)
                     max_hashtags == Get(requirements, "max_hashtags", <<30>>)
                 IN IF Len(hashtags) > max_hashtags[1]
                    THEN Join(FilterParts(Split(caption), 0, max_hashtags[1]))
                    ELSE caption
            ELSE caption
    IN Truncate(trimmed, max_length)

(***************************************************************************)
(* unified_post_workflow: the retry loop of one platform                   *)
(***************************************************************************)

\* Mutant of AttemptStep: the attempt is logged before its outcome is
\* looked at, so a successful attempt leaves an entry too.
AttemptStepLogsEveryAttempt(st, attempt, r) ==
    IF r.kind = "raise"
    THEN [st EXCEPT
            !.error_log = Append(@, "Attempt " \o ToString(attempt)
                                      \o " exception: " \o r.message),
            !.message = IF attempt < max_attempts THEN @
                        ELSE "All " \o ToString(max_attempts)
                             \o " attempts failed. Last error: " \o r.message]
    ELSE [st EXCEPT
            !.success = r.success, !.message = r.message, !.done = r.success,
            !.error_log = Append(@, "Attempt " \o ToString(attempt)
                                      \o " failed: " \o r.message)]

\* Mutant of AttemptStep: the failure of the last attempt is not logged.
AttemptStepLastUnlogged(st, attempt, r) ==
    IF r.kind = "raise"
    THEN [st EXCEPT
            !.error_log = Append(@, "Attempt " \o ToString(attempt)
                                      \o " exception: " \o r.message),
            !.message = IF attempt < max_attempts THEN @
                        ELSE "All " \o ToString(max_attempts)
                             \o " attempts failed. Last error: " \o r.message]
    ELSE IF r.success
    THEN [st EXCEPT !.success = TRUE, !.message = r.message, !.done = TRUE]
    ELSE [st EXCEPT
            !.success = FALSE, !.message = r.message,
            !.error_log = IF attempt < max_attempts
                          THEN Append(@, "Attempt " \o ToString(attempt)
                                           \o " failed: " \o r.message)
                          ELSE @]

\* Mutant of AttemptStep: the loop is not left on a success.
AttemptStepNoBreak(st, attempt, r) ==
    IF r.kind = "raise"
    THEN [st EXCEPT
            !.error_log = Append(@, "Attempt " \o ToString(attempt)
                                      \o " exception: " \o r.message),
            !.message = IF attempt < max_attempts THEN @
                        ELSE "All " \o ToString(max_attempts)
                             \o " attempts failed. Last error: " \o r.message]
    ELSE IF r.success
    THEN [st EXCEPT !.success = TRUE, !.message = r.message]
    ELSE [st EXCEPT
            !.success = FALSE, !.message = r.message,
            !.error_log = Append(@, "Attempt " \o ToString(attempt)
                                      \o " failed: " \o r.message)]

\* The body of "for attempt in range(1, max_attempts + 1)" for one attempt,
\* r being what share_manager.share_to_platform returned or raised.
AttemptStep(st, attempt, r) ==
    IF r.kind = "raise"
    THEN [st EXCEPT
            !.error_log = Append(@, "Attempt " \o ToString(attempt)
                                      \o " exception: " \o r.message),
            !.message = IF attempt < max_attempts THEN @
                        ELSE "All " \o ToString(max_attempts)
                             \o " attempts failed. Last error: " \o r.message]
    ELSE IF r.success
    THEN [st EXCEPT !.success = TRUE, !.message = r.message, !.done = TRUE]
    ELSE [st EXCEPT
            !.success = FALSE, !.message = r.message,
            !.error_log = Append(@, "Attempt " \o ToString(attempt)
                                      \o " failed: " \o r.message)]

\* The whole retry loop of one platform; calls[k] is what the adapter does
\* when it is called on attempt k.
RECURSIVE RetryLoop(_, _, _, _, _)
RetryLoop(svc, platform, calls, attempt, st) ==
    IF attempt > max_attempts \/ st.done
    THEN st
    ELSE RetryLoop(svc, platform, calls, attempt + 1,
                   AttemptStep(st, attempt,
                               ShareToPlatform(svc, platform, calls[attempt])))

\* Mutant of WorkflowEntry: the entry is the (success, message) pair of
\* share_to_multiple.
WorkflowEntryPair(st) == <<st.success, st.message>>

\* results[platform] = (success, message, error_log)
WorkflowEntry(st) == <<st.success, st.message, st.error_log>>

\* unified_post_workflow as a function of what the adapters do: the dict it
\* returns for the requested platforms.
UnifiedPostWorkflow(svc, platforms, calls) ==
    [p \in platforms |->
        WorkflowEntry(RetryLoop(svc, p, calls[p], 1, RetryStart))]

\* share_to_multiple as a function of what the adapters do: the dict it
\* returns for the requested platforms, keyed by display name.
ShareToMultiple(svc, platforms, calls) ==
    LET r(p) == ShareToPlatform(svc, p, calls[p])
        keys == {r(p).name : p \in platforms}
    IN [k \in keys |->
          LET p == CHOOSE q \in platforms : r(q).name = k
          IN <<r(p).success, r(p).message>>]

\* C31: at every moment of a share_to_multiple call, the number of
\* share_to_platform tasks that are running, and so the number of adapter
\* calls in progress, is at most max_workers.
C31_AtMostMaxWorkers ==
    /\ BusyWorkers <= max_workers
    /\ sm_pc = "idle" => BusyWorkers = 0

\* C31 witness: a request for more platforms than the largest pool has
\* workers; every worker is running a task and a task waits in the queue.
C31_Witness ==
    /\ sm_pc = "collecting"
    /\ max_workers = MaxWorkers
    /\ BusyWorkers = max_workers
    /\ \E p \in DOMAIN futures : futures[p].state = "queued"

\* C30: when share_to_multiple returns, every platform of the request has a
\* task, and none of the tasks is still queued or running.
C30_ReturnsAfterAllCompleted ==
    sm_pc = "returned" =>
        /\ DOMAIN futures = sm_platforms
        /\ \A p \in DOMAIN futures : futures[p].state \notin {"queued", "running"}

\* C30 witness: a request for more platforms than the pool has workers, so
\* that tasks waited in the queue, has returned.
C30_Witness ==
    /\ sm_pc = "returned"
    /\ max_workers = MaxWorkers
    /\ Cardinality(sm_platforms) > max_workers
    /\ \A p \in sm_platforms : futures[p].state = "collected"

(***************************************************************************)
(* ScheduledPost and the schedule file                                     *)
(***************************************************************************)

PostIds == 1..MaxPosts
Times == 0..MaxTime

Terminal == {"published", "failed", "cancelled"}

\* ScheduledPost.__init__ (status defaults to 'pending', created_at is
\* datetime.now()).
ScheduledPost(post_id, image_path, caption, platforms, scheduled_time, status, t) ==
    [post_id |-> post_id, image_path |-> image_path, caption |-> caption,
     platforms |-> platforms, scheduled_time |-> scheduled_time,
     status |-> status, created_at |-> t]

\* A datetime is its number of microseconds since the start of the run.
Microsecond == 1000000

\* Mutant of IsoFormat: isoformat(timespec='seconds'), the fraction is
\* never written.
IsoFormatSeconds(t) == [seconds |-> t \div Microsecond, fraction |-> <<>>]

\* datetime.isoformat(): the text of a datetime, "YYYY-MM-DDTHH:MM:SS" and,
\* only when the microsecond is not 0, ".ffffff".
IsoFormat(t) ==
    [seconds |-> t \div Microsecond,
     fraction |-> IF t % Microsecond = 0 THEN <<>> ELSE <<t % Microsecond>>]

\* datetime.fromisoformat(): the datetime of a text; a text without
\* fraction has microsecond 0.
FromIsoFormat(text) ==
    text.seconds * Microsecond
        + (IF text.fraction = <<>> THEN 0 ELSE text.fraction[1])

\* ScheduledPost.to_dict
ToDict(post) ==
    [post_id |-> post.post_id, image_path |-> post.image_path,
     caption |-> post.caption, platforms |-> post.platforms,
     scheduled_time |-> IsoFormat(post.scheduled_time),
     status |-> post.status, created_at |-> IsoFormat(post.created_at)]

\* Mutant of FromDict: created_at is not read from the data, a loaded post
\* is as old as the process.
FromDictNewCreatedAt(data, t) ==
    ScheduledPost(data.post_id, data.image_path, data.caption,
                  data.platforms, FromIsoFormat(data.scheduled_time),
                  IF "status" \in DOMAIN data THEN data.status ELSE "pending",
                  t)

\* ScheduledPost.from_dict at time t: the status defaults to 'pending', and
\* created_at stays the time of construction unless the data has one.
FromDict(data, t) ==
    LET post == ScheduledPost(data.post_id, data.image_path, data.caption,
                              data.platforms,
                              FromIsoFormat(data.scheduled_time),
                              IF "status" \in DOMAIN data THEN data.status
                              ELSE "pending",
                              t)
    IN IF "created_at" \in DOMAIN data
       THEN [post EXCEPT !.created_at = FromIsoFormat(data.created_at)]
       ELSE post

\* from_dict(data) does not raise: the keys it reads with data[...] are
\* there.
WellFormed(data) ==
    {"post_id", "image_path", "caption", "platforms", "scheduled_time"}
        \subseteq DOMAIN data

\* The records "for post_data in data" reaches before from_dict raises
\* and the except clause around the loop ends the load: those before the
\* first malformed record, in the order they were written.
Loadable(file) ==
    {i \in DOMAIN file : \A j \in DOMAIN file : j <= i => WellFormed(file[j])}

\* Scheduler._load_scheduled_posts at time t: the posts of the file, by
\* post_id.
LoadScheduledPosts(file, t) == [i \in Loadable(file) |-> FromDict(file[i], t)]

\* Scheduler._save_scheduled_posts: the data written for the posts in memory.
SaveData(posts) == [i \in DOMAIN posts |-> ToDict(posts[i])]

\* The content of the file after _save_scheduled_posts tried to write data:
\* the data when the write succeeded, the old content when open() raised.
WriteFile(file, data, d) == IF d = "ok" THEN data ELSE file

\* The pending posts _reschedule_pending_posts finds due at time t.
MissedPosts(posts, t) ==
    {i \in DOMAIN posts : posts[i].status = "pending" /\ posts[i].scheduled_time <= t}

\* Mutant of ReschedulePosts: a missed post is left pending.
ReschedulePostsKeepPending(posts, t) == posts

\* Scheduler._reschedule_pending_posts: the posts after the loop.
ReschedulePosts(posts, t) ==
    [i \in DOMAIN posts |->
        IF i \in MissedPosts(posts, t)
        THEN [posts[i] EXCEPT !.status = "failed"]
        ELSE posts[i]]

\* Mutant of RescheduleJobs: every pending post gets a job, a missed one too.
RescheduleJobsAllPending(posts, t) ==
    [i \in {j \in DOMAIN posts : posts[j].status = "pending"} |->
        posts[i].scheduled_time]

\* Mutant of RescheduleJobs: no job is registered at startup.
RescheduleJobsNone(posts, t) == EmptyDict

\* Scheduler._reschedule_pending_posts: the jobs _schedule_job has added
\* after the loop.
RescheduleJobs(posts, t) ==
    [i \in {j \in DOMAIN posts :
               posts[j].status = "pending" /\ posts[j].scheduled_time > t} |->
        posts[i].scheduled_time]

\* Mutant of ScheduleJob: a job that exists already is not replaced.
ScheduleJobKeepExisting(js, post) ==
    IF post.post_id \in DOMAIN js THEN js
    ELSE (post.post_id :> post.scheduled_time) @@ js

\* Mutant of ScheduleJob: no job is added.
ScheduleJobNone(js, post) == js

\* Scheduler._schedule_job: add_job(id=post_id, replace_existing=True).
ScheduleJob(js, post) == DictSet(js, post.post_id, post.scheduled_time)

\* d without key k.
DictDel(d, k) == [i \in DOMAIN d \ {k} |-> d[i]]

\* Mutant of AllSuccess: any() instead of all().
AnySuccess(results) ==
    IF \E k \in DOMAIN results : Len(results[k]) # 2
    THEN "raise"
    ELSE IF results = EmptyDict \/ \E k \in DOMAIN results : results[k][1]
         THEN "published" ELSE "failed"

\* "all(success for success, _ in results.values())" and the status it gives;
\* unpacking a value that is not a pair raises ValueError.
AllSuccess(results) ==
    IF \E k \in DOMAIN results : Len(results[k]) # 2
    THEN "raise"
    ELSE IF \A k \in DOMAIN results : results[k][1]
         THEN "published" ELSE "failed"

\* The status _execute_scheduled_post sets, given what the callback returned
\* (the except clause sets 'failed').
StatusAfterCallback(results) ==
    IF AllSuccess(results) = "raise" THEN "failed" ELSE AllSuccess(results)

\* Mutant of ExecStatus: the try statement has no except clause and no
\* else branch, so the status is only set after a callback that returned.
ExecStatusUnlessReturned(callback, results) ==
    IF callback \in {"none", "raises"} THEN "pending"
    ELSE StatusAfterCallback(results)

\* The status _execute_scheduled_post sets: 'failed' without callback
\* (the else branch) and after a callback that raised (the except clause),
\* and otherwise what the callback's results give.
ExecStatus(callback, results) ==
    IF callback = "none" THEN "failed"
    ELSE IF callback = "raises" THEN "failed"
    ELSE StatusAfterCallback(results)

(***************************************************************************)
(* Scheduler                                                               *)
(***************************************************************************)

\* The functions a Scheduler is constructed with as share_callback:
\* PostboiApp._scheduler_share_callback (share_to_multiple),
\* unified_post_workflow, None, or a function that raises.
CallbackKinds == {"share", "workflow", "none", "raises"}

\* The platforms arguments the callers pass: two platforms, one platform
\* and the empty list.
PlatformChoices == {{"wordpress", "facebook"}, {"instagram"}, {}}

\* The adapters the application has configured while the Scheduler runs.
SchedulerServices == {"wordpress", "facebook"}

\* The scheduled_time arguments the callers pass at time t: the tick before,
\* the present tick and the next tick.
TimeArgs(t) == {u \in Times : t - 1 <= u /\ u <= t + 1}

Return(op, post_id, ok, message, args) ==
    [op |-> op, post_id |-> post_id, ok |-> ok, message |-> message,
     args |-> args]

\* Mutant of NotPending: a cancelled post counts as pending.
NotPendingNorCancelled(status) == status \notin {"pending", "cancelled"}

\* "post.status != 'pending'"
NotPending(status) == status # "pending"

\* Mutant of NotInFuture: the present moment is accepted.
NotInFutureStrict(scheduled_time, t) == scheduled_time < t

\* "scheduled_time <= datetime.now()"
NotInFuture(scheduled_time, t) == scheduled_time <= t

\* An adapter that fails attempts 1..n-1 and succeeds on attempt n (never,
\* when n > max_attempts); no call is made for a platform without adapter.
CallsSucceedingAt(svc, p, n) ==
    [k \in 1..max_attempts |->
        IF ~(p \in KnownPlatforms /\ p \in svc) THEN NoCall
        ELSE IF k = n
             THEN [kind |-> "return", success |-> TRUE, message |-> "post_url"]
             ELSE [kind |-> "return", success |-> FALSE, message |-> "upload failed"]]

\* What share_callback(image_path, caption, platforms) can return.
CallbackResults(kind, svc, platforms) ==
    IF kind = "share"
    THEN {ShareToMultiple(svc, platforms, calls) :
            calls \in {c \in [platforms -> AdapterOutcomes \cup {NoCall}] :
                         \A p \in platforms : c[p] \in AdapterCalls(p)}}
    ELSE {UnifiedPostWorkflow(svc, platforms,
                              [p \in platforms |-> CallsSucceedingAt(svc, p, n[p])]) :
            n \in [platforms -> {1, max_attempts + 1}]}

\* Scheduler.__init__ on a machine that has no schedule file yet.
SchedulerInit ==
    /\ up = TRUE
    /\ now = 0
    /\ share_callback \in CallbackKinds
    /\ scheduled_posts = EmptyDict
    /\ schedule_file = EmptyDict
    /\ jobs = EmptyDict
    /\ running = EmptyDict
    /\ invoked = [i \in PostIds |-> 0]
    /\ next_id = 1
    /\ ret = NoReturn
    /\ returned = NoResults
    /\ missed = EmptyDict
    /\ seen = EmptyDict
    /\ calls_made = 0
    /\ crashes = 0
    /\ disk = "ok"
    /\ disk_failures = 0
    /\ old_jobs = EmptyDict
    /\ old_posts = EmptyDict
    /\ old_invoked = [i \in 1..MaxPosts |-> 0]

\* The application's ShareManager while the Scheduler runs; no
\* share_to_multiple call of the user interface is in progress.
ShareIdle ==
    /\ services = SchedulerServices
    /\ max_workers = 1
    /\ sm_pc = "idle"
    /\ sm_platforms = {}
    /\ futures = EmptyDict
    /\ sm_results = EmptyDict

\* Time passes.
Tick ==
    /\ now < MaxTime
    /\ now' = now + 1
    /\ ret' = NoReturn
    /\ returned' = NoResults
    /\ UNCHANGED <<up, share_callback, scheduled_posts, schedule_file, jobs,
                   running, invoked, next_id, missed, seen, calls_made, crashes>>
    /\ UNCHANGED diskVars
    /\ UNCHANGED oldVars
    /\ UNCHANGED shareVars
    /\ UNCHANGED wfVars
    /\ UNCHANGED fnVars

\* Scheduler.schedule_post
SchedulePost ==
    /\ up
    /\ returned' = NoResults
    /\ calls_made < MaxCalls
    /\ calls_made' = calls_made + 1
    /\ \E caption \in {"caption"}, platforms \in PlatformChoices,
          t \in TimeArgs(now) :
         IF NotInFuture(t, now)
         THEN /\ ret' = Return("schedule", 0, FALSE,
                               "Scheduled time must be in the future",
                               Args(caption, platforms, t))
              /\ UNCHANGED <<scheduled_posts, schedule_file, jobs, next_id>>
         ELSE /\ next_id <= MaxPosts
              /\ LET post == ScheduledPost(next_id, ImagePath, caption, platforms,
                                           t, "pending", now)
                     posts == DictSet(scheduled_posts, next_id, post)
                 IN /\ scheduled_posts' = posts
                    /\ jobs' = ScheduleJob(jobs, post)
                    /\ schedule_file' = WriteFile(schedule_file, SaveData(posts), disk)
                    /\ ret' = IF disk = "ok"
                               THEN Return("schedule", next_id, TRUE, "post_id",
                                           Args(caption, platforms, t))
                               ELSE Return("schedule", 0, FALSE,
                                           "Failed to save scheduled post",
                                           Args(caption, platforms, t))
              /\ next_id' = next_id + 1
    /\ UNCHANGED <<up, now, share_callback, running, invoked, missed, seen,
                   crashes>>
    /\ UNCHANGED diskVars
    /\ UNCHANGED oldVars
    /\ UNCHANGED shareVars
    /\ UNCHANGED wfVars
    /\ UNCHANGED fnVars

\* Scheduler.cancel_post
CancelPost ==
    /\ up
    /\ returned' = NoResults
    /\ calls_made < MaxCalls
    /\ calls_made' = calls_made + 1
    /\ \E id \in PostIds :
         IF id \notin DOMAIN scheduled_posts
         THEN /\ ret' = Return("cancel", id, FALSE, "Post not found", NoArgs)
              /\ UNCHANGED <<scheduled_posts, schedule_file, jobs>>
         ELSE IF NotPending(scheduled_posts[id].status)
         THEN /\ ret' = Return("cancel", id, FALSE,
                               "Cannot cancel post with status: "
                                 \o scheduled_posts[id].status, NoArgs)
              /\ UNCHANGED <<scheduled_posts, schedule_file, jobs>>
         ELSE LET posts == [scheduled_posts EXCEPT ![id].status = "cancelled"]
              IN /\ jobs' = DictDel(jobs, id)
                 /\ scheduled_posts' = posts
                 /\ schedule_file' = WriteFile(schedule_file, SaveData(posts), disk)
                 /\ ret' = Return("cancel", id, TRUE, "Post cancelled successfully",
                                   NoArgs)
    /\ UNCHANGED <<up, now, share_callback, running, invoked, next_id, missed,
                   seen, crashes>>
    /\ UNCHANGED diskVars
    /\ UNCHANGED oldVars
    /\ UNCHANGED shareVars
    /\ UNCHANGED wfVars
    /\ UNCHANGED fnVars

\* Scheduler.update_post
UpdatePost ==
    /\ up
    /\ returned' = NoResults
    /\ calls_made < MaxCalls
    /\ calls_made' = calls_made + 1
    /\ \E id \in PostIds, caption \in {"", "new caption"},
          t \in TimeArgs(now) \cup {-1} :
         \* t = -1 stands for scheduled_time=None, "" for no caption
         IF id \notin DOMAIN scheduled_posts
         THEN /\ ret' = Return("update", id, FALSE, "Post not found", NoArgs)
              /\ UNCHANGED <<scheduled_posts, schedule_file, jobs>>
         ELSE IF NotPending(scheduled_posts[id].status)
         THEN /\ ret' = Return("update", id, FALSE,
                               "Cannot update post with status: "
                                 \o scheduled_posts[id].status, NoArgs)
              /\ UNCHANGED <<scheduled_posts, schedule_file, jobs>>
         ELSE LET captioned == IF caption # ""
                               THEN [scheduled_posts EXCEPT ![id].caption = caption]
                               ELSE scheduled_posts
              IN IF t # -1 /\ NotInFuture(t, now)
                 THEN /\ scheduled_posts' = captioned
                      /\ ret' = Return("update", id, FALSE,
                                       "Scheduled time must be in the future",
                                       NoArgs)
                      /\ UNCHANGED <<schedule_file, jobs>>
                 ELSE LET posts == IF t # -1
                                   THEN [captioned EXCEPT ![id].scheduled_time = t]
                                   ELSE captioned
                      IN /\ scheduled_posts' = posts
                         /\ jobs' = IF t # -1 THEN ScheduleJob(jobs, posts[id])
                                    ELSE jobs
                         /\ schedule_file' = WriteFile(schedule_file, SaveData(posts), disk)
                         /\ ret' = IF disk = "ok"
                                    THEN Return("update", id, TRUE,
                                                "Post updated successfully",
                                                Args(caption, {}, t))
                                    ELSE Return("update", id, FALSE,
                                                "Failed to save changes",
                                                Args(caption, {}, t))
    /\ UNCHANGED <<up, now, share_callback, running, invoked, next_id, missed,
                   seen, crashes>>
    /\ UNCHANGED diskVars
    /\ UNCHANGED oldVars
    /\ UNCHANGED shareVars
    /\ UNCHANGED wfVars
    /\ UNCHANGED fnVars

\* The job of a post is due and no instance of it is running: APScheduler
\* removes the date job from the job store and runs
\* _execute_scheduled_post(post_id) on a pool thread, which looks the post up
\* and calls share_callback with its current content.
JobFire ==
    /\ up
    /\ \E id \in DOMAIN jobs :
         /\ jobs[id] <= now
         /\ id \notin DOMAIN running
         /\ jobs' = DictDel(jobs, id)
         /\ running' = DictSet(running, id,
                [pc |-> "callback",
                 platforms |-> scheduled_posts[id].platforms,
                 data |-> EmptyDict])
         /\ invoked' = IF share_callback = "none" THEN invoked
                       ELSE [invoked EXCEPT ![id] = @ + 1]
    /\ ret' = NoReturn
    /\ returned' = NoResults
    /\ UNCHANGED <<up, now, share_callback, scheduled_posts, schedule_file,
                   next_id, missed, seen, calls_made, crashes>>
    /\ UNCHANGED diskVars
    /\ UNCHANGED oldVars
    /\ UNCHANGED shareVars
    /\ UNCHANGED wfVars
    /\ UNCHANGED fnVars

\* The job of a post is due while an instance of it is still running
\* (max_instances = 1): the run is skipped and the date job removed.
JobSkip ==
    /\ up
    /\ \E id \in DOMAIN jobs :
         /\ jobs[id] <= now
         /\ id \in DOMAIN running
         /\ jobs' = DictDel(jobs, id)
    /\ ret' = NoReturn
    /\ returned' = NoResults
    /\ UNCHANGED <<up, now, share_callback, scheduled_posts, schedule_file,
                   running, invoked, next_id, missed, seen, calls_made, crashes>>
    /\ UNCHANGED diskVars
    /\ UNCHANGED oldVars
    /\ UNCHANGED shareVars
    /\ UNCHANGED wfVars
    /\ UNCHANGED fnVars

\* _execute_scheduled_post after the callback: the callback returns (or
\* there is none), post.status is set, and _save_scheduled_posts builds the
\* data to write.
ExecFinish ==
    /\ up
    /\ \E id \in DOMAIN running :
         /\ running[id].pc = "callback"
         /\ \E results \in IF share_callback \in {"none", "raises"}
                           THEN {EmptyDict}
                           ELSE CallbackResults(share_callback, services,
                                                running[id].platforms) :
              LET status == ExecStatus(share_callback, results)
                  posts == [scheduled_posts EXCEPT ![id].status = status]
              IN /\ scheduled_posts' = posts
                 /\ running' = [running EXCEPT ![id].pc = "save",
                                               ![id].data = SaveData(posts)]
                 /\ returned' = [post_id |-> id,
                                 called |-> share_callback # "none",
                                 raised |-> share_callback = "raises",
                                 results |-> results]
    /\ ret' = NoReturn
    /\ UNCHANGED <<up, now, share_callback, schedule_file, jobs, invoked,
                   next_id, missed, seen, calls_made, crashes>>
    /\ UNCHANGED diskVars
    /\ UNCHANGED oldVars
    /\ UNCHANGED shareVars
    /\ UNCHANGED wfVars
    /\ UNCHANGED fnVars

\* _save_scheduled_posts of _execute_scheduled_post writes the file; the job
\* instance is over.
ExecWrite ==
    /\ up
    /\ \E id \in DOMAIN running :
         /\ running[id].pc = "save"
         /\ schedule_file' = WriteFile(schedule_file, running[id].data, disk)
         /\ running' = DictDel(running, id)
    /\ ret' = NoReturn
    /\ returned' = NoResults
    /\ UNCHANGED <<up, now, share_callback, scheduled_posts, jobs, invoked,
                   next_id, missed, seen, calls_made, crashes>>
    /\ UNCHANGED diskVars
    /\ UNCHANGED oldVars
    /\ UNCHANGED shareVars
    /\ UNCHANGED wfVars
    /\ UNCHANGED fnVars

\* The process stops: the memory, the timers and the running jobs are gone,
\* those of a replaced Scheduler object too.
Crash ==
    /\ up
    /\ crashes < MaxCrashes
    /\ crashes' = crashes + 1
    /\ up' = FALSE
    /\ scheduled_posts' = EmptyDict
    /\ jobs' = EmptyDict
    /\ running' = EmptyDict
    /\ ret' = NoReturn
    /\ returned' = NoResults
    /\ UNCHANGED <<now, share_callback, schedule_file, invoked, next_id,
                   missed, seen, calls_made>>
    /\ UNCHANGED diskVars
    /\ old_jobs' = EmptyDict
    /\ old_posts' = EmptyDict
    /\ UNCHANGED old_invoked
    /\ UNCHANGED shareVars
    /\ UNCHANGED wfVars
    /\ UNCHANGED fnVars

\* Scheduler.__init__ in a new process: _load_scheduled_posts, then
\* _reschedule_pending_posts.
Startup ==
    /\ ~up
    /\ up' = TRUE
    /\ LET loaded == LoadScheduledPosts(schedule_file, now)
       IN /\ scheduled_posts' = ReschedulePosts(loaded, now)
          /\ jobs' = RescheduleJobs(loaded, now)
          /\ schedule_file' = IF MissedPosts(loaded, now) # {}
                              THEN WriteFile(schedule_file,
                                             SaveData(ReschedulePosts(loaded, now)),
                                             disk)
                              ELSE schedule_file
    /\ missed' = [i \in DOMAIN missed \cup
                          {j \in Loadable(schedule_file) :
                             /\ schedule_file[j].status = "pending"
                             /\ FromIsoFormat(schedule_file[j].scheduled_time) <= now} |->
                    invoked[i]]
    /\ seen' = [i \in Loadable(schedule_file) |->
                  IF schedule_file[i].status # "pending" THEN "terminal"
                  ELSE IF FromIsoFormat(schedule_file[i].scheduled_time) <= now
                       THEN "missed" ELSE "future"]
    /\ ret' = NoReturn
    /\ returned' = NoResults
    /\ UNCHANGED <<now, share_callback, running, invoked, next_id,
                   calls_made, crashes>>
    /\ UNCHANGED diskVars
    /\ UNCHANGED oldVars
    /\ UNCHANGED shareVars
    /\ UNCHANGED wfVars
    /\ UNCHANGED fnVars

Next ==
    \/ Tick
    \/ SchedulePost
    \/ CancelPost
    \/ UpdatePost
    \/ JobFire
    \/ JobSkip
    \/ ExecFinish
    \/ ExecWrite
    \/ Crash
    \/ Startup

Init == SchedulerInit /\ ShareIdle /\ WorkflowOff /\ FnOff

Spec == Init /\ [][Next]_vars

\* Writing the schedule file starts to fail (the directory is gone, the file
\* is read-only, the disk is full).
DiskFails ==
    /\ disk = "ok"
    /\ disk_failures < MaxDiskFailures
    /\ disk' = "failing"
    /\ disk_failures' = disk_failures + 1
    /\ ret' = NoReturn
    /\ returned' = NoResults
    /\ UNCHANGED <<up, now, share_callback, scheduled_posts, schedule_file, jobs,
                   running, invoked, next_id, missed, seen, calls_made, crashes>>
    /\ UNCHANGED oldVars
    /\ UNCHANGED shareVars
    /\ UNCHANGED wfVars
    /\ UNCHANGED fnVars

\* Writing the schedule file works again.
DiskRecovers ==
    /\ disk = "failing"
    /\ disk' = "ok"
    /\ ret' = NoReturn
    /\ returned' = NoResults
    /\ UNCHANGED <<up, now, share_callback, scheduled_posts, schedule_file, jobs,
                   running, invoked, next_id, missed, seen, calls_made, crashes,
                   disk_failures>>
    /\ UNCHANGED oldVars
    /\ UNCHANGED shareVars
    /\ UNCHANGED wfVars
    /\ UNCHANGED fnVars

\* The Scheduler on a disk that can fail.
NextDisk ==
    \/ Next
    \/ DiskFails
    \/ DiskRecovers

\* The application's Scheduler: its callback is
\* PostboiApp._scheduler_share_callback.
AppInit == Init /\ share_callback = "share"

SpecDisk == AppInit /\ [][NextDisk]_vars

\* PostboiApp._init_services while the application runs (login, logout,
\* settings saved): self.scheduler becomes a new Scheduler over the same
\* file, which loads the file and arms the pending posts; the Scheduler it
\* replaces is not shut down, so its timers stay armed.  Taken while no
\* execution is in progress and the Scheduler replaced before has no timer
\* left; it counts as a construction of the Scheduler, as a restart does.
ReInit ==
    /\ up
    /\ crashes < MaxCrashes
    /\ running = EmptyDict
    /\ old_jobs = EmptyDict
    /\ crashes' = crashes + 1
    /\ old_jobs' = jobs
    /\ old_posts' = scheduled_posts
    /\ LET loaded == LoadScheduledPosts(schedule_file, now)
       IN /\ scheduled_posts' = ReschedulePosts(loaded, now)
          /\ jobs' = RescheduleJobs(loaded, now)
          /\ schedule_file' = IF MissedPosts(loaded, now) # {}
                              THEN WriteFile(schedule_file,
                                             SaveData(ReschedulePosts(loaded, now)),
                                             disk)
                              ELSE schedule_file
    /\ missed' = [i \in DOMAIN missed \cup
                          {j \in Loadable(schedule_file) :
                             /\ schedule_file[j].status = "pending"
                             /\ FromIsoFormat(schedule_file[j].scheduled_time) <= now} |->
                    invoked[i]]
    /\ seen' = [i \in Loadable(schedule_file) |->
                  IF schedule_file[i].status # "pending" THEN "terminal"
                  ELSE IF FromIsoFormat(schedule_file[i].scheduled_time) <= now
                       THEN "missed" ELSE "future"]
    /\ ret' = NoReturn
    /\ returned' = NoResults
    /\ UNCHANGED <<up, now, share_callback, running, invoked, next_id,
                   calls_made, old_invoked>>
    /\ UNCHANGED diskVars
    /\ UNCHANGED shareVars
    /\ UNCHANGED wfVars
    /\ UNCHANGED fnVars

\* A timer of the replaced Scheduler fires: its _execute_scheduled_post
\* calls share_callback for the post as that object knows it, sets the
\* status in that object's scheduled_posts and writes them to the file.
OldJobFire ==
    /\ up
    /\ \E id \in DOMAIN old_jobs :
         /\ old_jobs[id] <= now
         /\ old_jobs' = DictDel(old_jobs, id)
         /\ \E results \in IF share_callback \in {"none", "raises"}
                           THEN {EmptyDict}
                           ELSE CallbackResults(share_callback, services,
                                                old_posts[id].platforms) :
              LET posts == [old_posts EXCEPT
                              ![id].status = ExecStatus(share_callback, results)]
              IN /\ old_posts' = posts
                 /\ schedule_file' = WriteFile(schedule_file, SaveData(posts),
                                               disk)
         /\ invoked' = IF share_callback = "none" THEN invoked
                       ELSE [invoked EXCEPT ![id] = @ + 1]
         /\ old_invoked' = IF share_callback = "none" THEN old_invoked
                           ELSE [old_invoked EXCEPT ![id] = @ + 1]
    /\ ret' = NoReturn
    /\ returned' = NoResults
    /\ UNCHANGED <<up, now, share_callback, scheduled_posts, jobs, running,
                   next_id, missed, seen, calls_made, crashes>>
    /\ UNCHANGED diskVars
    /\ UNCHANGED shareVars
    /\ UNCHANGED wfVars
    /\ UNCHANGED fnVars

\* The application, whose services are initialised again while it runs.
NextReinit ==
    \/ Next
    \/ ReInit
    \/ OldJobFire

SpecReinit == AppInit /\ [][NextReinit]_vars

\* While the process is down, a record of the file loses a key that
\* from_dict reads (the file was edited, cut short or written by another
\* version).
FileCorrupts ==
    /\ ~up
    /\ \A i \in DOMAIN schedule_file : WellFormed(schedule_file[i])
    /\ \E i \in DOMAIN schedule_file :
         schedule_file' =
            [schedule_file EXCEPT
               ![i] = [k \in DOMAIN @ \ {"scheduled_time"} |-> @[k]]]
    /\ UNCHANGED <<up, now, share_callback, scheduled_posts, jobs, running,
                   invoked, next_id, ret, returned, missed, seen, calls_made,
                   crashes>>
    /\ UNCHANGED diskVars
    /\ UNCHANGED oldVars
    /\ UNCHANGED shareVars
    /\ UNCHANGED wfVars
    /\ UNCHANGED fnVars

\* The Scheduler over a file that can be damaged between two runs.
NextCorrupt ==
    \/ Next
    \/ FileCorrupts

SpecCorrupt == AppInit /\ [][NextCorrupt]_vars

(***************************************************************************)
(* Claims about the Scheduler                                              *)
(***************************************************************************)

\* C3: when cancel_post(id) races with the timer fire of the same pending
\* post, exactly one wins: a cancel that returns success means the post is
\* cancelled, no execution of it is in progress and the publish callback
\* has not been invoked for it.
C3_CancelExcludesFire ==
    \A id \in PostIds :
        (ret.op = "cancel" /\ ret.ok /\ ret.post_id = id) =>
            /\ scheduled_posts[id].status = "cancelled"
            /\ id \notin DOMAIN running
            /\ invoked[id] = 0

\* C4: a post's status changes only from pending to published, failed or
\* cancelled; once it is terminal, no step of the running process changes
\* its status, caption, image, platforms or scheduled time.
C4_TerminalIsFinal ==
    [][\A id \in DOMAIN scheduled_posts \cap DOMAIN scheduled_posts' :
          scheduled_posts[id].status \in Terminal =>
              scheduled_posts'[id] = scheduled_posts[id]]_vars

\* C5: the publish callback is invoked at most once for every post.
C5_AtMostOnce ==
    \A id \in PostIds : invoked[id] <= 1

\* C6: a post that a startup finds pending in the file with scheduled_time
\* <= now is failed in memory and in the file, has no timer, is not executed,
\* and the callback is invoked for it neither then nor later.
C6_MissedPostFails ==
    \A id \in DOMAIN missed :
        /\ id \in DOMAIN schedule_file
        /\ schedule_file[id].status = "failed"
        /\ invoked[id] = missed[id]
        /\ up => /\ id \in DOMAIN scheduled_posts
                 /\ scheduled_posts[id].status = "failed"
                 /\ id \notin DOMAIN jobs
                 /\ id \notin DOMAIN running

\* C6 witness: a post was found missed at a startup and, later, the clock
\* has moved on and another call has been made.
C6_Witness ==
    /\ up
    /\ \E id \in DOMAIN missed : invoked[id] = 0 /\ share_callback # "none"
    /\ ret.op # "none"

\* C7: at startup, every post that is pending in the file with a future
\* scheduled_time gets a timer at that time and stays pending, and a post
\* loaded with a terminal status gets none; a timer fires no earlier than
\* its time and its fire invokes the configured callback exactly once.
C7_PendingFutureRearmed ==
    [][/\ (~up /\ up') =>
            \A id \in DOMAIN schedule_file :
                LET d == schedule_file[id]
                IN /\ (d.status = "pending" /\ FromIsoFormat(d.scheduled_time) > now) =>
                        /\ id \in DOMAIN jobs'
                        /\ jobs'[id] = FromIsoFormat(d.scheduled_time)
                        /\ scheduled_posts'[id].status = "pending"
                   /\ d.status \in Terminal => id \notin DOMAIN jobs'
       /\ \A id \in DOMAIN jobs :
            (up /\ up' /\ id \in DOMAIN running' /\ id \notin DOMAIN running) =>
                /\ jobs[id] <= now
                /\ id \notin DOMAIN jobs'
                /\ invoked'[id] = invoked[id] +
                                   (IF share_callback = "none" THEN 0 ELSE 1)
      ]_vars

\* C7 witness: after a restart, the timer of a post that was pending and in
\* the future at startup has fired and the callback has been invoked once,
\* while another post of the file was terminal at that startup.
C7_Witness ==
    /\ up /\ crashes > 0
    /\ \E id \in DOMAIN running, other \in DOMAIN seen :
         /\ id \in DOMAIN seen
         /\ seen[id] = "future"
         /\ invoked[id] = 1
         /\ seen[other] = "terminal"
         /\ other \notin DOMAIN jobs

\* The callback's results report success for platform p (under the
\* platform's name or its display name).
SuccessIn(results, p) ==
    \E k \in DOMAIN results \cap (KeysOf(p) \cup {p}) : results[k][1]

\* C8: after a timer fire, the post is published only if the callback's
\* results report success for every platform of the post, and it is failed
\* if a requested platform failed or has no success outcome in the results.
C8_PublishedOnlyIfAllSucceeded ==
    \A id \in PostIds :
        returned.post_id = id =>
            LET post == scheduled_posts[id]
            IN /\ post.status \in {"published", "failed"}
               /\ post.status = "published" =>
                     /\ returned.called
                     /\ \A p \in post.platforms : SuccessIn(returned.results, p)
               /\ (\E p \in post.platforms : ~SuccessIn(returned.results, p)) =>
                     post.status = "failed"

\* C8 witness: a fire on a post with two platforms whose results report
\* success for both, so that the post is published.
C8_Witness ==
    \E id \in DOMAIN scheduled_posts :
        /\ returned.post_id = id
        /\ Cardinality(scheduled_posts[id].platforms) = 2
        /\ \A p \in scheduled_posts[id].platforms : SuccessIn(returned.results, p)
        /\ scheduled_posts[id].status = "published"

\* C9: when the injected callback is unified_post_workflow, the status set
\* after the fire is the aggregate of its results: published when every
\* platform succeeded, failed when any platform failed.
C9_WorkflowAggregate ==
    \A id \in PostIds :
        (share_callback = "workflow" /\ returned.post_id = id) =>
            LET post == scheduled_posts[id]
            IN post.status =
                 (IF \A p \in post.platforms : returned.results[p][1]
                  THEN "published" ELSE "failed")

\* The step is a schedule_post call that returns.
ScheduleReturns == calls_made' # calls_made /\ ret'.op = "schedule"

\* C15: a schedule_post call with scheduled_time <= now returns failure and
\* leaves the posts in memory, the timers and the file as they were.
C15_PastTimeRejected ==
    [][(ScheduleReturns /\ ret'.args.scheduled_time <= now) =>
          /\ ~ret'.ok
          /\ scheduled_posts' = scheduled_posts
          /\ jobs' = jobs
          /\ schedule_file' = schedule_file
      ]_vars

\* C15 witness: a schedule_post call for the present moment was rejected
\* while the store holds a pending post with a timer.
C15_Witness ==
    /\ ret.op = "schedule" /\ ~ret.ok
    /\ ret.args.scheduled_time = now /\ now > 0
    /\ \E id \in DOMAIN jobs : scheduled_posts[id].status = "pending"

\* C16: a schedule_post call with scheduled_time > now returns an id that no
\* earlier call returned and no post in memory or in the file has;
\* afterwards the store holds a pending post with that id and the given
\* image, caption, platforms and time, a date job for it is registered at
\* that time, and the file contains the post.
C16_ScheduleCreatesPost ==
    [][(ScheduleReturns /\ ret'.args.scheduled_time > now) =>
          LET id == ret'.post_id
              post == ScheduledPost(id, ImagePath, ret'.args.caption,
                                    ret'.args.platforms,
                                    ret'.args.scheduled_time, "pending", now)
          IN /\ ret'.ok
             /\ id \notin 1..(next_id - 1)
             /\ id \notin DOMAIN scheduled_posts
             /\ id \notin DOMAIN schedule_file
             /\ id \in DOMAIN scheduled_posts'
             /\ scheduled_posts'[id] = post
             /\ id \in DOMAIN jobs'
             /\ jobs'[id] = ret'.args.scheduled_time
             /\ id \in DOMAIN schedule_file'
             /\ FromDict(schedule_file'[id], now) = post
      ]_vars

\* C16 witness: a second schedule_post call has succeeded; the store holds
\* the post of the first call and the new one.
C16_Witness ==
    /\ ret.op = "schedule" /\ ret.ok
    /\ ret.post_id > 1
    /\ \A id \in 1..ret.post_id : id \in DOMAIN scheduled_posts
    /\ ret.post_id \in DOMAIN jobs

\* The step is a cancel_post call that returns.
CancelReturns == calls_made' # calls_made /\ ret'.op = "cancel"

\* C17: a cancel_post call on an unknown id or on a post that is cancelled,
\* published or failed returns a failure whose message is determined by the
\* post's status, and leaves the posts in memory, the file and the timers
\* unchanged; the same call repeated returns the same.
C17_CancelTerminalIsNoOp ==
    [][\A id \in PostIds :
          (/\ CancelReturns /\ ret'.post_id = id
           /\ \/ id \notin DOMAIN scheduled_posts
              \/ scheduled_posts[id].status \in Terminal) =>
              /\ ~ret'.ok
              /\ ret'.message =
                    (IF id \notin DOMAIN scheduled_posts THEN "Post not found"
                     ELSE "Cannot cancel post with status: "
                            \o scheduled_posts[id].status)
              /\ scheduled_posts' = scheduled_posts
              /\ schedule_file' = schedule_file
              /\ jobs' = jobs
              /\ (ret.op = "cancel" /\ ret.post_id = id /\ ~ret.ok) => ret' = ret
      ]_vars

\* C17 witness: cancel_post was called a second time on a post that the
\* first call cancelled, and was refused.
C17_Witness ==
    /\ ret.op = "cancel" /\ ~ret.ok
    /\ ret.post_id \in DOMAIN scheduled_posts
    /\ scheduled_posts[ret.post_id].status = "cancelled"
    /\ ret.message = "Cannot cancel post with status: cancelled"

\* The step is an update_post call that returns.
UpdateReturns == calls_made' # calls_made /\ ret'.op = "update"

\* C18: an update_post call that is rejected leaves the posts in memory
\* (caption, scheduled_time and status), the timers and the file exactly as
\* they were before the call.
C18_RejectedUpdateChangesNothing ==
    [][(UpdateReturns /\ ~ret'.ok) =>
          /\ scheduled_posts' = scheduled_posts
          /\ jobs' = jobs
          /\ schedule_file' = schedule_file
      ]_vars

\* C19: an update_post call that succeeds with a new scheduled_time leaves
\* one date job for the post, at the new time (which is in the future), and
\* invokes nothing; a job fires only when the time the post has now is
\* reached, so never at a time that an update replaced.
C19_UpdateRearmsTimer ==
    [][/\ \A id \in PostIds :
            (/\ UpdateReturns /\ ret'.ok /\ ret'.post_id = id
             /\ ret'.args.scheduled_time # -1) =>
                /\ scheduled_posts[id].status = "pending"
                /\ ret'.args.scheduled_time > now
                /\ id \in DOMAIN jobs'
                /\ jobs'[id] = ret'.args.scheduled_time
                /\ scheduled_posts'[id].scheduled_time = ret'.args.scheduled_time
                /\ invoked' = invoked
       /\ \A id \in DOMAIN jobs :
            (id \notin DOMAIN running /\ id \in DOMAIN running') =>
                /\ jobs[id] = scheduled_posts[id].scheduled_time
                /\ scheduled_posts[id].scheduled_time <= now
      ]_vars

\* C19 witness: a post created at time 0 was due at time 1; at time 1,
\* before its timer fired, update_post moved it to time 2: its job is at
\* time 2 and the callback has not been invoked.
C19_Witness ==
    /\ ret.op = "update" /\ ret.ok
    /\ now = 1 /\ ret.args.scheduled_time = 2
    /\ ret.post_id \in DOMAIN jobs
    /\ jobs[ret.post_id] = 2
    /\ scheduled_posts[ret.post_id].created_at = 0
    /\ invoked[ret.post_id] = 0
    /\ ret.post_id \notin DOMAIN running

\* C20: when no timer execution is in progress, every post in memory is in
\* the file with the status it has in memory: no new post and no status
\* change has been lost to a stale write.
C20_NoLostUpdate ==
    (up /\ running = EmptyDict) =>
        \A id \in DOMAIN scheduled_posts :
            /\ id \in DOMAIN schedule_file
            /\ schedule_file[id].status = scheduled_posts[id].status

\* C21: whenever no Scheduler operation is in progress, the file holds
\* exactly the posts in memory, with every field equal.
C21_FileEqualsMemory ==
    (up /\ running = EmptyDict) =>
        LoadScheduledPosts(schedule_file, now) = scheduled_posts

\* C22: a schedule_post, cancel_post or update_post call whose write of the
\* file failed returns a failure, and the posts in memory keep the change
\* the call made.
C22_WriteFailureReported ==
    (disk = "failing" /\ ret.op \in {"schedule", "cancel", "update"}) =>
        /\ ~ret.ok
        /\ (ret.op = "schedule" /\ ret.args.scheduled_time > now) =>
              /\ (next_id - 1) \in DOMAIN scheduled_posts
              /\ (next_id - 1) \notin DOMAIN schedule_file
        /\ (ret.op = "update" /\ ret.message = "Failed to save changes"
               /\ ret.args.scheduled_time # -1) =>
              scheduled_posts[ret.post_id].scheduled_time = ret.args.scheduled_time

\* C23: no step removes a post: the ids in the file and the ids in the
\* memory of the running process only grow, and a startup loads every post
\* of the file.
C23_NeverDeleted ==
    [][/\ DOMAIN schedule_file \subseteq DOMAIN schedule_file'
       /\ (up /\ up') => DOMAIN scheduled_posts \subseteq DOMAIN scheduled_posts'
       /\ (~up /\ up') => DOMAIN scheduled_posts' = DOMAIN schedule_file
      ]_vars

(***************************************************************************)
(* unified_post_workflow, step by step                                     *)
(***************************************************************************)

\* unified_post_workflow is called with a list of distinct platforms and a
\* ShareManager: results = {}.
WorkflowCall ==
    /\ wf_pc = "idle"
    /\ \E P \in SUBSET PlatformNames :
         /\ Cardinality(P) <= MaxRequest
         /\ wf_todo' = P
         /\ wf_calls' = [p \in P |-> <<>>]
         /\ wf_adapts' = [p \in P |-> 0]
         /\ wf_sent' = [p \in P |-> <<>>]
    /\ wf_results' = EmptyDict
    /\ wf_pc' = "platform"
    /\ UNCHANGED <<wf_platform, wf_attempt, wf_st, wf_image, wf_env>>
    /\ UNCHANGED shareVars
    /\ UNCHANGED schedVars
    /\ UNCHANGED fnVars

\* "for platform in platforms": the next platform is taken, its caption and
\* image are adjusted, and the retry loop starts with attempt 1.
WorkflowPlatform ==
    /\ wf_pc = "platform"
    /\ \E p \in wf_todo, env \in ResizeEnvs :
         /\ wf_platform' = p
         /\ wf_todo' = wf_todo \ {p}
         /\ wf_image' = AdjustImageForPlatform(ImagePath, Lower(p), env)
         /\ wf_env' = env
         /\ wf_adapts' = [wf_adapts EXCEPT ![p] = @ + 1]
    /\ wf_attempt' = 1
    /\ wf_st' = RetryStart
    /\ wf_pc' = "attempt"
    /\ UNCHANGED <<wf_results, wf_calls, wf_sent>>
    /\ UNCHANGED shareVars
    /\ UNCHANGED schedVars
    /\ UNCHANGED fnVars

\* One pass of the retry loop's body: share_to_platform is called and its
\* outcome handled; the loop is left on success or after the last attempt.
WorkflowAttempt ==
    /\ wf_pc = "attempt"
    /\ \E o \in AdapterCalls(wf_platform) :
         LET st == AttemptStep(wf_st, wf_attempt,
                               ShareToPlatform(services, wf_platform, o))
         IN /\ wf_st' = st
            /\ wf_calls' = [wf_calls EXCEPT ![wf_platform] = Append(@, o)]
            /\ wf_pc' = IF st.done \/ wf_attempt >= max_attempts
                        THEN "store" ELSE "sleep"
    /\ wf_sent' = [wf_sent EXCEPT ![wf_platform] = Append(@, wf_image)]
    /\ UNCHANGED <<wf_todo, wf_platform, wf_attempt, wf_results, wf_image,
                   wf_env, wf_adapts>>
    /\ UNCHANGED shareVars
    /\ UNCHANGED schedVars
    /\ UNCHANGED fnVars

\* time.sleep(retry_delay) is over; the next attempt starts.
WorkflowSleep ==
    /\ wf_pc = "sleep"
    /\ wf_attempt' = wf_attempt + 1
    /\ wf_pc' = "attempt"
    /\ UNCHANGED <<wf_todo, wf_platform, wf_st, wf_results, wf_calls, wf_image,
                   wf_env, wf_adapts, wf_sent>>
    /\ UNCHANGED shareVars
    /\ UNCHANGED schedVars
    /\ UNCHANGED fnVars

\* results[platform] = (success, message, error_log)
WorkflowStore ==
    /\ wf_pc = "store"
    /\ wf_results' = DictSet(wf_results, wf_platform, WorkflowEntry(wf_st))
    /\ wf_pc' = IF wf_todo = {} THEN "returned" ELSE "platform"
    /\ UNCHANGED <<wf_todo, wf_platform, wf_attempt, wf_st, wf_calls, wf_image,
                   wf_env, wf_adapts, wf_sent>>
    /\ UNCHANGED shareVars
    /\ UNCHANGED schedVars
    /\ UNCHANGED fnVars

\* A call with no platforms returns the empty dict.
WorkflowEmpty ==
    /\ wf_pc = "platform"
    /\ wf_todo = {}
    /\ wf_pc' = "returned"
    /\ UNCHANGED <<wf_todo, wf_platform, wf_attempt, wf_st, wf_results, wf_calls,
                   wf_image, wf_env, wf_adapts, wf_sent>>
    /\ UNCHANGED shareVars
    /\ UNCHANGED schedVars
    /\ UNCHANGED fnVars

WorkflowNext ==
    \/ WorkflowCall
    \/ WorkflowPlatform
    \/ WorkflowAttempt
    \/ WorkflowSleep
    \/ WorkflowStore
    \/ WorkflowEmpty

\* The ShareManager the workflow is called with; no share_to_multiple call
\* is in progress.
WorkflowShareManager ==
    /\ services \in SUBSET KnownPlatforms
    /\ max_workers = 1
    /\ sm_pc = "idle"
    /\ sm_platforms = {}
    /\ futures = EmptyDict
    /\ sm_results = EmptyDict

SpecWorkflowInit == WorkflowShareManager /\ SchedulerOff /\ WorkflowOff /\ FnOff

SpecWorkflow == SpecWorkflowInit /\ [][WorkflowNext]_vars

(***************************************************************************)
(* Claims about unified_post_workflow                                      *)
(***************************************************************************)

\* The adapter call reported a success.
Succeeded(o) == o.kind = "return" /\ o.success

\* The failure message share_to_platform gives for an adapter call.
FailureMessage(o) ==
    IF o.kind = "raise" THEN "Error: " \o o.message ELSE o.message

\* C10: for a platform whose adapter failed attempts 1..N-1 and succeeded
\* on attempt N <= max_attempts, the result is a success and the attempt
\* history has exactly N-1 entries, the i-th recording attempt i.
C10_SuccessOnAttemptN ==
    \A p \in DOMAIN wf_results :
        LET h == wf_calls[p]
            N == Len(h)
        IN (/\ N >= 1 /\ N <= max_attempts
            /\ Succeeded(h[N])
            /\ \A i \in 1..(N - 1) : ~Succeeded(h[i]) /\ h[i].kind # "none") =>
               /\ wf_results[p][1] = TRUE
               /\ wf_results[p][2] = h[N].message
               /\ Len(wf_results[p][3]) = N - 1
               /\ \A i \in 1..(N - 1) :
                     wf_results[p][3][i] =
                        "Attempt " \o ToString(i) \o " failed: "
                                   \o FailureMessage(h[i])

\* C10 witness: a returned call in which an adapter failed twice, once by
\* raising, and succeeded on the third attempt.
C10_Witness ==
    /\ wf_pc = "returned"
    /\ \E p \in DOMAIN wf_results :
         /\ Len(wf_calls[p]) = max_attempts
         /\ Succeeded(wf_calls[p][max_attempts])
         /\ \E i \in 1..(max_attempts - 1) : wf_calls[p][i].kind = "raise"
         /\ Len(wf_results[p][3]) = max_attempts - 1

\* C35: unified_post_workflow ends by returning, and the dict it returns
\* has one entry for every requested platform and no other, each a triple
\* of a success flag, a message and an attempt history with at most
\* max_attempts entries; no platform is left out because a platform before
\* it failed or raised.
C35_WorkflowAlwaysReturns ==
    /\ wf_pc \in {"idle", "platform", "attempt", "sleep", "store", "returned"}
    /\ wf_pc = "returned" =>
          /\ DOMAIN wf_results = DOMAIN wf_calls
          /\ \A p \in DOMAIN wf_results :
                /\ Len(wf_results[p]) = 3
                /\ wf_results[p][1] \in BOOLEAN
                /\ Len(wf_results[p][3]) <= max_attempts
                /\ wf_results[p][1] = Succeeded(wf_calls[p][Len(wf_calls[p])])

\* C35 witness: a returned call for MaxRequest platforms in which every
\* adapter call of one platform raised and a platform without adapter was
\* requested too.
C35_Witness ==
    /\ wf_pc = "returned"
    /\ Cardinality(DOMAIN wf_results) = MaxRequest
    /\ \E p \in DOMAIN wf_results :
          /\ Len(wf_calls[p]) = max_attempts
          /\ \A i \in 1..max_attempts : wf_calls[p][i].kind = "raise"
          /\ wf_results[p][1] = FALSE
    /\ \E p \in DOMAIN wf_results : ~Configured(p)

\* The adapter of platform p was called on all max_attempts attempts of the
\* call and failed every time.
FailedEveryAttempt(p) ==
    /\ Len(wf_calls[p]) = max_attempts
    /\ \A i \in 1..max_attempts :
          wf_calls[p][i].kind # "none" /\ ~Succeeded(wf_calls[p][i])

\* C11 (amended): for a platform whose adapter fails every one of the
\* max_attempts attempts, the result is a failure and the attempt history
\* has exactly max_attempts entries, the i-th recording attempt i.
C11_ExhaustedHistoryFull ==
    \A p \in DOMAIN wf_results :
        FailedEveryAttempt(p) =>
            /\ wf_results[p][1] = FALSE
            /\ Len(wf_results[p][3]) = max_attempts
            /\ \A i \in 1..max_attempts :
                  wf_results[p][3][i] =
                     "Attempt " \o ToString(i) \o " failed: "
                                \o FailureMessage(wf_calls[p][i])

\* C11 as stated: for a platform whose adapter fails every one of the
\* max_attempts attempts, the result is a failure and the attempt history
\* has exactly max_attempts-1 entries.
C11_ExhaustedHistoryShort ==
    \A p \in DOMAIN wf_results :
        FailedEveryAttempt(p) =>
            /\ wf_results[p][1] = FALSE
            /\ Len(wf_results[p][3]) = max_attempts - 1

\* C11 witness: a returned call in which an adapter failed all max_attempts
\* attempts, once by raising.
C11_Witness ==
    /\ wf_pc = "returned"
    /\ \E p \in DOMAIN wf_results :
         /\ FailedEveryAttempt(p)
         /\ \E i \in 1..max_attempts : wf_calls[p][i].kind = "raise"
         /\ wf_results[p][1] = FALSE

\* C12: in one unified_post_workflow call, a step makes at most one adapter
\* call, for the loop's current platform; a platform's calls number at most
\* max_attempts, every call before a new one returned a failure (so none
\* follows a success), and when the call returns every requested platform
\* that has an adapter was called at least once.
C12_BoundedSequentialAttempts ==
    [][/\ \A p \in DOMAIN wf_calls \cap DOMAIN wf_calls' :
            wf_calls'[p] # wf_calls[p] =>
                /\ wf_pc = "attempt" /\ p = wf_platform
                /\ \A q \in DOMAIN wf_calls \ {p} : wf_calls'[q] = wf_calls[q]
                /\ Len(wf_calls'[p]) = Len(wf_calls[p]) + 1
                /\ Len(wf_calls'[p]) <= max_attempts
                /\ \A i \in 1..Len(wf_calls[p]) :
                      /\ wf_calls'[p][i] = wf_calls[p][i]
                      /\ ~Succeeded(wf_calls[p][i])
       /\ wf_pc' = "returned" =>
            \A p \in DOMAIN wf_calls' :
                Configured(p) =>
                    /\ Len(wf_calls'[p]) >= 1
                    /\ \A i \in 1..Len(wf_calls'[p]) : wf_calls'[p][i].kind # "none"
      ]_vars

\* C12 witness: a returned call over two platforms, one whose adapter
\* succeeded at once and was called once, one whose adapter was called
\* max_attempts times.
C12_Witness ==
    /\ wf_pc = "returned"
    /\ \E p, q \in DOMAIN wf_results :
         /\ Len(wf_calls[p]) = 1 /\ Succeeded(wf_calls[p][1])
         /\ Len(wf_calls[q]) = max_attempts /\ Configured(q)

\* The stored result of platform p is what a call for p alone gives when
\* p's adapter does the same.
ResultAsIfAlone(p) ==
    wf_results[p] =
        UnifiedPostWorkflow(services, {p},
                            [q \in {p} |->
                               [k \in 1..max_attempts |->
                                  IF k <= Len(wf_calls[p])
                                  THEN wf_calls[p][k] ELSE NoCall]])[p]

\* A requested platform whose retry loop has not started yet.
Waiting(p) == wf_pc \notin {"idle", "returned"} /\ p \in wf_todo

\* C13: in one unified_post_workflow call over several platforms, the
\* result, attempts and attempt history of a platform are those of a call
\* for it alone, and no platform's attempts wait while another platform is
\* between two attempts of its retry sequence (in its retry delay).
C13_PlatformsIsolated ==
    /\ \A p \in DOMAIN wf_results : ResultAsIfAlone(p)
    /\ wf_pc = "sleep" => \A p \in PlatformNames : ~Waiting(p)

\* C14: a requested platform with no configured adapter is evaluated once
\* by the retry workflow, never waits a retry delay, and its result is the
\* failure "Service not configured".
C14_UnconfiguredNotRetried ==
    \A p \in DOMAIN wf_calls :
        ~Configured(p) =>
            /\ Len(wf_calls[p]) <= 1
            /\ ~(wf_pc = "sleep" /\ wf_platform = p)
            /\ p \in DOMAIN wf_results =>
                  /\ wf_results[p][1] = FALSE
                  /\ wf_results[p][2] = "Service not configured"

\* C25: in unified_post_workflow every share_to_platform call for a platform
\* is preceded by its own run of the caption and image adaptation, so a
\* platform is adapted as many times as it is attempted.
C25_AdaptedBeforeEveryAttempt ==
    \A p \in DOMAIN wf_sent : Len(wf_sent[p]) <= wf_adapts[p]

\* The message that summarises an exhausted retry sequence with the attempt
\* count and the last error.
ExhaustedSummary(last_error) ==
    "All " \o ToString(max_attempts) \o " attempts failed. Last error: "
           \o last_error

\* C26: for a platform whose adapter returned a failure on every one of
\* the max_attempts attempts, the recorded message is the summary that names
\* the attempt count and the last error.
C26_ExhaustedMessageSummarises ==
    \A p \in DOMAIN wf_results :
        (/\ FailedEveryAttempt(p)
         /\ \A i \in 1..max_attempts : wf_calls[p][i].kind = "return") =>
            wf_results[p][2] = ExhaustedSummary(wf_calls[p][max_attempts].message)

\* The image collaborator failed: it could not be imported, or resize_image
\* returned None or raised.
ResizeFailed(env) == ~env.import_ok \/ env.resize \in {"none", "raise"}

FnTimes == {sec * Microsecond + usec : sec \in 0..1, usec \in {0, 1, Microsecond - 1}}

\* The posts to_dict is called on.
FnPosts ==
    [post_id : {1}, image_path : ImagePaths, caption : {"", "caption"},
     platforms : PlatformChoices, scheduled_time : FnTimes,
     status : {"pending"} \cup Terminal, created_at : FnTimes]

\* One call: a post to serialise, a caption to adjust or an image to adjust.
FnInit ==
    /\ fn_pc = "call"
    /\ fn_out = EmptyDict
    /\ \/ fn_in \in [fn : {"to_dict"}, post : FnPosts]
       \/ fn_in \in [fn : {"adjust_caption"}, caption : Captions,
                     platform : CaptionPlatforms,
                     requirement_table : RequirementTables]
       \/ fn_in \in [fn : {"adjust_image"}, image_path : ImagePaths,
                     platform : CaptionPlatforms, env : ResizeEnvs]

\* post.to_dict(), on the post of the call or on the post from_dict made.
FnToDict ==
    /\ \/ fn_pc = "call" /\ fn_in.fn = "to_dict"
             /\ fn_out' = ToDict(fn_in.post)
       \/ fn_pc = "from_dict"
             /\ fn_out' = ToDict(fn_out)
    /\ fn_pc' = "to_dict"
    /\ UNCHANGED fn_in
    /\ UNCHANGED <<shareVars, schedVars, wfVars>>

\* ScheduledPost.from_dict(data) on the data to_dict returned, at any time.
FnFromDict ==
    /\ fn_pc = "to_dict"
    /\ \E t \in FnTimes : fn_out' = FromDict(fn_out, t)
    /\ fn_pc' = "from_dict"
    /\ UNCHANGED fn_in
    /\ UNCHANGED <<shareVars, schedVars, wfVars>>

\* adjust_caption_for_platform(caption, platform)
FnAdjustCaption ==
    /\ fn_pc = "call" /\ fn_in.fn = "adjust_caption"
    /\ fn_out' = AdjustCaptionForPlatform(fn_in.caption, fn_in.platform,
                                          fn_in.requirement_table)
    /\ fn_pc' = "adjusted_caption"
    /\ UNCHANGED fn_in
    /\ UNCHANGED <<shareVars, schedVars, wfVars>>

\* adjust_image_for_platform(image_path, platform)
FnAdjustImage ==
    /\ fn_pc = "call" /\ fn_in.fn = "adjust_image"
    /\ fn_out' = AdjustImageForPlatform(fn_in.image_path, fn_in.platform,
                                        fn_in.env)
    /\ fn_pc' = "adjusted_image"
    /\ UNCHANGED fn_in
    /\ UNCHANGED <<shareVars, schedVars, wfVars>>

FnNext ==
    \/ FnToDict
    \/ FnFromDict
    \/ FnAdjustCaption
    \/ FnAdjustImage

SpecFunctionsInit == ShareIdle /\ SchedulerOff /\ WorkflowOff /\ FnInit

SpecFunctions == SpecFunctionsInit /\ [][FnNext]_vars

(***************************************************************************)
(* Claims about the serialisation and adaptation functions                 *)
(***************************************************************************)

\* C24: from_dict(p.to_dict()) has the same id, image path, caption,
\* platforms, scheduled_time, status and created_at as p, whenever it is
\* built, and so has every post of a further to_dict and from_dict.
C24_RoundTrip ==
    fn_pc = "from_dict" => fn_out = fn_in.post

\* C24 witness: a post with a whole-second scheduled_time and a created_at
\* with microseconds came back from from_dict.
C24_Witness ==
    /\ fn_pc = "from_dict"
    /\ fn_in.post.scheduled_time = Microsecond
    /\ fn_in.post.created_at = Microsecond - 1
    /\ fn_in.post.status = "cancelled"
    /\ fn_out.scheduled_time = Microsecond
    /\ fn_out.created_at = Microsecond - 1

\* The words of a caption that do not start with '#'.
NonHashtags(caption) ==
    SelectSeq(Split(caption), LAMBDA word : ~StartsWithHash(word))

\* The first n elements of a sequence.
FirstN(seq, n) == SubSeq(seq, 1, IF n < Len(seq) THEN n ELSE Len(seq))

\* The words kept under a hashtag cap: every word that is not a hashtag and
\* every hashtag that is among the first cap hashtags.
KeptWords(words, cap) ==
    LET kept == {i \in 1..Len(words) :
                    \/ ~StartsWithHash(words[i])
                    \/ Cardinality({j \in 1..i : StartsWithHash(words[j])}) <= cap}
    IN [k \in 1..Cardinality(kept) |->
          words[CHOOSE i \in kept : Cardinality({j \in kept : j <= i}) = k]]

\* The hashtag cap and the max length adjust_caption_for_platform applies
\* in a call, None where it applies none.
CapOf(call) ==
    IF Lower(call.platform) = "instagram"
    THEN Get(Get(call.requirement_table, "instagram", EmptyDict),
             "max_hashtags", <<30>>)
    ELSE None

LimitOf(call) ==
    Get(Get(call.requirement_table, Lower(call.platform), EmptyDict),
        "max_caption_length", None)

\* The caption of a call after its hashtags were cut to the cap.
CutToCap(call) ==
    IF CapOf(call) # None /\ Len(Hashtags(call.caption)) > CapOf(call)[1]
    THEN Join(KeptWords(Split(call.caption), CapOf(call)[1]))
    ELSE call.caption

\* C27 as stated: on a platform with hashtag cap C, a caption with more
\* than C hashtags comes back with exactly the first C of them and with
\* all its other words in order; a caption with at most C comes back with
\* its words unchanged.
C27_HashtagsTrimmed ==
    (fn_pc = "adjusted_caption" /\ CapOf(fn_in) # None) =>
        LET cap == CapOf(fn_in)[1]
        IN IF Len(Hashtags(fn_in.caption)) > cap
           THEN /\ Len(Hashtags(fn_out)) = cap
                /\ Hashtags(fn_out) = FirstN(Hashtags(fn_in.caption), cap)
                /\ NonHashtags(fn_out) = NonHashtags(fn_in.caption)
           ELSE Split(fn_out) = Split(fn_in.caption)

\* C27 as amended: the same, for the captions that are within the
\* platform's max length once their hashtags are cut to the cap.
C27_HashtagsTrimmedWithinLimit ==
    (/\ fn_pc = "adjusted_caption" /\ CapOf(fn_in) # None
     /\ LimitOf(fn_in) # None => Len(CutToCap(fn_in)) <= LimitOf(fn_in)[1]) =>
        LET cap == CapOf(fn_in)[1]
        IN IF Len(Hashtags(fn_in.caption)) > cap
           THEN /\ Len(Hashtags(fn_out)) = cap
                /\ Hashtags(fn_out) = FirstN(Hashtags(fn_in.caption), cap)
                /\ NonHashtags(fn_out) = NonHashtags(fn_in.caption)
           ELSE Split(fn_out) = Split(fn_in.caption)

\* C27 witness: with cap 1, "# a #a" came back as "# a".
C27_Witness ==
    /\ fn_pc = "adjusted_caption"
    /\ fn_in.platform = "Instagram"
    /\ fn_in.requirement_table = SmallRequirements
    /\ fn_in.caption = <<"#", " ", "a", " ", "#", "a">>
    /\ fn_out = <<"#", " ", "a">>

\* C28 as stated: with a max length L, a caption of at most L characters
\* comes back without truncation or suffix, a longer one as its first L-3
\* characters and the suffix, and the result is never longer than L; with
\* no max length nothing is truncated.
C28_Truncated ==
    fn_pc = "adjusted_caption" =>
        IF LimitOf(fn_in) = None
        THEN fn_out = CutToCap(fn_in)
        ELSE LET L == LimitOf(fn_in)[1]
             IN /\ Len(fn_in.caption) <= L => fn_out = CutToCap(fn_in)
                /\ Len(fn_in.caption) > L =>
                      fn_out = SubSeq(fn_in.caption, 1, L - 3) \o Ellipsis
                /\ Len(fn_out) <= L

\* C28 as amended: the length that is compared with L, and the text that
\* is cut, are those of the caption after its hashtags were cut to the cap.
C28_TruncatedAfterTrimming ==
    fn_pc = "adjusted_caption" =>
        IF LimitOf(fn_in) = None
        THEN fn_out = CutToCap(fn_in)
        ELSE LET L == LimitOf(fn_in)[1]
                 cut == CutToCap(fn_in)
             IN /\ Len(cut) <= L => fn_out = cut
                /\ Len(cut) > L => fn_out = SubSeq(cut, 1, L - 3) \o Ellipsis
                /\ Len(fn_out) <= L

\* C28 witness: on facebook, with a max length of CaptionLimit + 2, a
\* caption of one character more came back as its first CaptionLimit - 1
\* characters and the suffix.
C28_Witness ==
    /\ fn_pc = "adjusted_caption"
    /\ fn_in.platform = "facebook"
    /\ fn_in.requirement_table = SmallRequirements
    /\ Len(fn_in.caption) = CaptionLimit + 3
    /\ fn_out = SubSeq(fn_in.caption, 1, CaptionLimit - 1) \o Ellipsis
    /\ Len(fn_out) = CaptionLimit + 2

(***************************************************************************)
(* Claims about the posts a Scheduler keeps                                *)
(***************************************************************************)

\* The fields of a post that are set at its creation.
FrameFields == {"post_id", "image_path", "platforms", "created_at"}

SameOn(a, b, fields) == \A f \in fields : a[f] = b[f]

\* C33: post_id, image_path, platforms and created_at of a post never
\* change, in memory or in the file, and a startup loads them as the file
\* has them; in memory a step of update_post leaves the status as it is,
\* and every other step the caption and the scheduled_time.
C33_FrameUnchanged ==
    [][/\ \A id \in DOMAIN scheduled_posts \cap DOMAIN scheduled_posts' :
             /\ SameOn(scheduled_posts[id], scheduled_posts'[id], FrameFields)
             /\ ret'.op = "update" =>
                    scheduled_posts'[id].status = scheduled_posts[id].status
             /\ ret'.op # "update" =>
                    SameOn(scheduled_posts[id], scheduled_posts'[id],
                           {"caption", "scheduled_time"})
       /\ \A id \in DOMAIN schedule_file \cap DOMAIN schedule_file' :
             SameOn(schedule_file[id], schedule_file'[id], FrameFields)
       /\ (~up /\ up') =>
             \A id \in DOMAIN scheduled_posts' :
                SameOn(ToDict(scheduled_posts'[id]), schedule_file[id],
                       FrameFields \cup {"caption", "scheduled_time"})]_vars

\* C33 witness: after a restart, at a later time than its creation, a post
\* with two platforms was changed by update_post and has the platforms and
\* the created_at it was created with.
C33_Witness ==
    /\ up
    /\ crashes = 1
    /\ ret.op = "update" /\ ret.ok
    /\ ret.post_id \in DOMAIN scheduled_posts
    /\ scheduled_posts[ret.post_id].created_at = 0
    /\ now > 0
    /\ scheduled_posts[ret.post_id].platforms = {"wordpress", "facebook"}
    /\ schedule_file[ret.post_id].platforms = {"wordpress", "facebook"}
    /\ schedule_file[ret.post_id].created_at = IsoFormat(0)

\* C34: every post in memory and in the file has at least one platform.
C34_PlatformsNonEmpty ==
    /\ \A id \in DOMAIN scheduled_posts : scheduled_posts[id].platforms # {}
    /\ \A id \in DOMAIN schedule_file : schedule_file[id].platforms # {}

\* C37: a timer is armed only for a post that is in memory with the status
\* pending.
C37_TimerOnlyForPending ==
    up => \A id \in DOMAIN jobs :
             /\ id \in DOMAIN scheduled_posts
             /\ scheduled_posts[id].status = "pending"

\* C38: when there is no callback or the callback raises, the step of
\* _execute_scheduled_post that follows the callback sets the status of
\* the post to failed, and its write leaves that status in the file.
C38_FailedAndPersisted ==
    [][\A id \in DOMAIN running :
          share_callback \in {"none", "raises"} =>
              /\ (/\ running[id].pc = "callback"
                  /\ id \in DOMAIN running'
                  /\ running'[id].pc = "save") =>
                     /\ scheduled_posts'[id].status = "failed"
                     /\ returned'.post_id = id
                     /\ returned'.results = EmptyDict
              /\ (/\ running[id].pc = "save"
                  /\ up'
                  /\ id \notin DOMAIN running') =>
                     /\ id \in DOMAIN schedule_file'
                     /\ schedule_file'[id].status = "failed"]_vars

\* C38 witness: the callback raised for a post that was pending and due,
\* the execution is over, and the post is failed in memory and in the file.
C38_Witness ==
    /\ up
    /\ share_callback = "raises"
    /\ running = EmptyDict
    /\ \E id \in DOMAIN scheduled_posts :
         /\ invoked[id] = 1
         /\ id \notin DOMAIN missed
         /\ scheduled_posts[id].status = "failed"
         /\ id \in DOMAIN schedule_file
         /\ schedule_file[id].status = "failed"

\* The status of a post as the application has it: the status in memory
\* while the process runs, the status in the file while it is stopped.
StatusOf(id) ==
    IF up
    THEN IF id \in DOMAIN scheduled_posts
         THEN scheduled_posts[id].status ELSE "absent"
    ELSE IF id \in DOMAIN schedule_file
         THEN schedule_file[id].status ELSE "absent"

\* C32, in the form a finite run refutes: when the process runs, no timer
\* is armed and no execution is in progress, nothing is left that would
\* change a post, so every post schedule_post has accepted is terminal by
\* then.
C32_NoPostLeftPending ==
    (up /\ jobs = EmptyDict /\ running = EmptyDict) =>
        \A id \in 1..(next_id - 1) : StatusOf(id) \in Terminal

\* C36: the callback is invoked at most once for a post, unless every
\* invocation came from the timers of the Scheduler object in use; the
\* timers of a Scheduler that _init_services replaced add no invocation.
C36_AtMostOnceAcrossSchedulers ==
    \A id \in PostIds : invoked[id] <= 1 \/ old_invoked[id] = 0

\* C39: outside timer executions, a step of the running process or a
\* startup keeps in the file every post the file had.
C39_FilePostsKept ==
    [][(up' /\ running = EmptyDict /\ running' = EmptyDict) =>
          DOMAIN schedule_file \subseteq DOMAIN schedule_file']_vars

====
